---- MODULE Spec2Model ----
(***************************************************************************)
(* A model of the Deribit trader middleware: the Subscription Broker       *)
(* (WebSocketServer) and the Order Registry (OrderManager).                *)
(*                                                                         *)
(* Granularity.  A block that runs under one std::lock_guard is one atomic *)
(* step (it is atomic for every other thread that takes the same mutex);   *)
(* whatever a function does between or after its locked blocks (a send, a  *)
(* second locked block) is a step of its own, so that every interleaving   *)
(* of the threads at lock boundaries is explored.  A mutex that stays      *)
(* locked across a step boundary is recorded in held.                      *)
(***************************************************************************)
EXTENDS Integers, Sequences, FiniteSets, TLC

\* ------------------------------------------------------------------------
\* The universe of the model
\* ------------------------------------------------------------------------

\* Connection objects (WebSocketConnection), named by their id, in the order
\* of the ids (the order in which std::set and std::map iterate).
ConnectionOrder == <<"c1", "c2">>

Connections == {ConnectionOrder[k] : k \in DOMAIN ConnectionOrder}

\* Instrument names.
Instruments == {"BTC-PERPETUAL", "ETH-PERPETUAL"}

\* The thread that runs io_context_->run(): every handler of the listener
\* and of the connections runs on it.
IoThread == "io"

\* A thread of the embedding application that calls the public methods while
\* the io thread runs the handlers.
Callers == {"t1"}

\* The threads of the concurrency test of the spec's testable properties:
\* each performs one addSubscription or removeSubscription on a pair of its
\* own, all at once.
Workers == {"w1", "w2", "w3"}

WorkerPair == [w1 |-> [c |-> "c1", i |-> "BTC-PERPETUAL"],
               w2 |-> [c |-> "c1", i |-> "ETH-PERPETUAL"],
               w3 |-> [c |-> "c2", i |-> "BTC-PERPETUAL"]]

Threads == {IoThread} \cup Callers \cup Workers

\* The two mutexes of WebSocketServer.
Mutexes == {"clients_mutex_", "subscriptions_mutex_"}

None == "none"

VARIABLES
    clients_,                \* connection table: the ids that are keys of clients_
    client_subscriptions_,   \* client id -> set of instruments
    instrument_subscribers_, \* instrument -> set of client ids
    conn,                    \* per connection: "new", "open", "closing" (close()
                             \* has posted on_close) or "closed" socket
    held,                    \* per thread: the mutexes it holds between steps
    th,                      \* per thread: the operation it runs, its program
                             \* counter, its locals and what it has sent
    task,                    \* the concurrency test's set-up: the pairs
                             \* subscribed at its start, each worker's operation
    server_running_,         \* WebSocketServer::running_
    io_context_              \* WebSocketServer::io_context_: "none" before
                             \* start, then "running" until stop stops it

brokerVars == <<clients_, client_subscriptions_, instrument_subscribers_,
                conn, held, th, task, server_running_, io_context_>>

VARIABLES
    orders_,                 \* order table: order id -> Order
    now,                     \* std::chrono::system_clock::now(), in ticks
    calls,                   \* how many OrderManager methods have been called
    ret,                     \* the last call of an OrderManager method and
                             \* the value it returned
    positions_               \* position table: instrument -> size

orderVars == <<orders_, now, calls, ret, positions_>>

VARIABLES
    running_,                \* MarketDataClient::running_
    subscriptions_,          \* MarketDataClient::subscriptions_, a vector
    orderbooks_,             \* MarketDataClient::orderbooks_: instrument -> Orderbook
    orderbook_callback_,     \* whether a callback has been registered
    mt                       \* per thread of the MarketDataClient: the method
                             \* it runs, its program counter, its locals, and
                             \* what the call has done so far

cacheVars == <<running_, subscriptions_, orderbooks_, orderbook_callback_, mt>>

vars == <<brokerVars, orderVars, cacheVars>>

\* ------------------------------------------------------------------------
\* std::map<std::string, std::set<std::string>> as a function on its keys
\* ------------------------------------------------------------------------

\* m[k].insert(v): operator[] creates the key with an empty set when absent.
MapSetInsert(m, k, v) ==
    [x \in DOMAIN m \cup {k} |->
        IF x = k THEN (IF k \in DOMAIN m THEN m[k] ELSE {}) \cup {v} ELSE m[x]]

\* A faulty erase that leaves the map as it is.
MapEraseNothing(m, k) == m

\* m.erase(k)
MapErase(m, k) == [x \in DOMAIN m \ {k} |-> m[x]]

\* m.find(k) != m.end() ? m.at(k) : {}
MapGet(m, k) == IF k \in DOMAIN m THEN m[k] ELSE {}

\* ------------------------------------------------------------------------
\* WebSocketServer: the bodies of the locked blocks
\* ------------------------------------------------------------------------

\* addSubscription: client_subscriptions_[client_id].insert(instrument)
AddToClientSubscriptions(cs, c, i) == MapSetInsert(cs, c, i)

\* A faulty addSubscription that forgets the reverse index.
AddToInstrumentSubscribersForgotten(is, i, c) == is

\* addSubscription: instrument_subscribers_[instrument].insert(client_id)
AddToInstrumentSubscribers(is, i, c) == MapSetInsert(is, i, c)

\* removeSubscription: erase the instrument from the client's set if the
\* client has an entry (the entry itself stays, possibly empty).
RemoveFromClientSubscriptions(cs, c, i) ==
    IF c \in DOMAIN cs THEN [cs EXCEPT ![c] = @ \ {i}] ELSE cs

\* A faulty removal that drops the instrument's entry together with the
\* subscribers it still has.
RemoveFromInstrumentSubscribersDropsEntry(is, i, c) ==
    IF i \in DOMAIN is THEN MapErase(is, i) ELSE is

\* A faulty removal that leaves the instrument's entry when its set has
\* become empty.
RemoveFromInstrumentSubscribersKeepsEmpty(is, i, c) ==
    IF i \in DOMAIN is THEN [is EXCEPT ![i] = @ \ {c}] ELSE is

\* removeSubscription / removeAllSubscriptions: erase the client from the
\* instrument's set if the instrument has an entry, and drop the entry when
\* the set has become empty.
RemoveFromInstrumentSubscribers(is, i, c) ==
    IF i \in DOMAIN is
    THEN IF is[i] \ {c} = {}
         THEN MapErase(is, i)
         ELSE [is EXCEPT ![i] = @ \ {c}]
    ELSE is

\* removeAllSubscriptions: client_subscriptions_.erase(client_id)
RemoveAllClientSubscriptions(cs, c) == MapErase(cs, c)

\* A faulty removeAllSubscriptions whose loop stops after one instrument.
RemoveAllInstrumentSubscribersFirstOnly(is, instruments, c) ==
    IF instruments = {} THEN is
    ELSE RemoveFromInstrumentSubscribers(is, CHOOSE x \in instruments : TRUE, c)

\* removeAllSubscriptions: the loop over the copied set of instruments.
RECURSIVE RemoveAllInstrumentSubscribers(_, _, _)
RemoveAllInstrumentSubscribers(is, instruments, c) ==
    IF instruments = {} THEN is
    ELSE LET i == CHOOSE x \in instruments : TRUE
         IN RemoveAllInstrumentSubscribers(
                RemoveFromInstrumentSubscribers(is, i, c), instruments \ {i}, c)

\* getSubscriptions: a copy of the client's set, or the empty set.
getSubscriptions(cs, c) == MapGet(cs, c)

\* A faulty first block that takes every connection.
SnapshotEveryone(is, i) == Connections

\* broadcastToSubscribers, first block: the ids subscribed to the instrument.
SnapshotSubscribers(is, i) == MapGet(is, i)

\* broadcastToSubscribers, second block: the ids that are in clients_.
ResolveClients(clients, client_ids) == {c \in client_ids : c \in clients}

\* ------------------------------------------------------------------------
\* Threads, mutexes and sends
\* ------------------------------------------------------------------------

\* A thread outside every operation.  Inside one: pc is the label of its
\* next step ("done": only the return is left), c and i are the arguments,
\* client_ids / clients / instruments the locals of the same name, ret the
\* value returned, sent the messages the operation has sent so far, and
\* alone the history flag "no other thread has taken a step since this
\* operation began".
Idle == [pc |-> "idle", op |-> None, c |-> None, i |-> None,
         client_ids |-> {}, clients |-> {}, instruments |-> {}, ret |-> {},
         sent |-> << >>, alone |-> TRUE]

\* A thread starts operation op and stands at label pc.
Begin(pc, op, c, i) == [Idle EXCEPT !.pc = pc, !.op = op, !.c = c, !.i = i]

\* Thread t moves to record rec; every other thread that has not returned
\* from its operation notes that it no longer runs alone.
Step(t, rec) ==
    [u \in Threads |->
        IF u = t THEN rec
        ELSE IF th[u].pc # "idle" THEN [th[u] EXCEPT !.alone = FALSE]
        ELSE th[u]]

\* A step of thread t of the broker: t moves to rec, and the OrderManager
\* and the MarketDataClient, which the broker never calls, stay as they are.
Advance(t, rec) ==
    /\ th' = Step(t, rec)
    /\ UNCHANGED <<server_running_, io_context_>>
    /\ UNCHANGED <<orderVars, cacheVars>>

\* std::lock_guard can be constructed: no thread holds the mutex.
Free(m) == \A u \in Threads : m \notin held[u]

\* connection->send(message) by thread t: the message, its target, and the
\* mutexes t holds while it sends.
Message(to, type, i, locks) ==
    [to |-> to, type |-> type, instrument |-> i, held |-> locks]

SendOne(t, log, to, type, i) == Append(log, Message(to, type, i, held[t]))

\* for (auto& client : clients) client->send(message), in the order of ids.
RECURSIVE SendAll(_, _, _, _, _)
SendAll(t, log, targets, type, i) ==
    IF targets = {} THEN log
    ELSE LET k == CHOOSE x \in DOMAIN ConnectionOrder :
                      /\ ConnectionOrder[x] \in targets
                      /\ \A y \in DOMAIN ConnectionOrder :
                            ConnectionOrder[y] \in targets => x <= y
             c == ConnectionOrder[k]
         IN SendAll(t, SendOne(t, log, c, type, i), targets \ {c}, type, i)

\* The connections a log of sends went to.
Recipients(log) == {log[k].to : k \in DOMAIN log}

\* A faulty locking in which onAccept, with clients_mutex_ held, goes on
\* into a block under subscriptions_mutex_.
MutexLockedAcceptNested(op, pc) ==
    IF pc = "accept_send" THEN {"subscriptions_mutex_"}
    ELSE IF pc = "entry" /\ op \in {"broadcastToAll", "onAccept"} THEN {"clients_mutex_"}
    ELSE IF pc = "entry" /\ op \notin {"start", "stop", "handleMessage"}
    THEN {"subscriptions_mutex_"}
    ELSE IF pc \in {"bcast_resolve", "close_erase", "stop_copy"} THEN {"clients_mutex_"}
    ELSE {}

\* The mutex the step at label pc of operation op locks ("entry" is the
\* operation's first step): the std::lock_guard the step constructs.
MutexLocked(op, pc) ==
    IF pc = "entry" /\ op \in {"broadcastToAll", "onAccept"} THEN {"clients_mutex_"}
    ELSE IF pc = "entry" /\ op \in {"addSubscription", "removeSubscription",
                                    "removeAllSubscriptions", "getSubscriptions",
                                    "broadcastToSubscribers", "broadcastOrderbook",
                                    "onClose"}
    THEN {"subscriptions_mutex_"}
    ELSE IF pc \in {"bcast_resolve", "close_erase", "stop_copy"} THEN {"clients_mutex_"}
    ELSE {}

\* ------------------------------------------------------------------------
\* WebSocketServer: the public methods, as steps of the calling thread
\* ------------------------------------------------------------------------

BrokerInit ==
    /\ clients_ = {}
    /\ client_subscriptions_ = << >>
    /\ instrument_subscribers_ = << >>
    /\ conn = [c \in Connections |-> "new"]
    /\ held = [t \in Threads |-> {}]
    /\ th = [t \in Threads |-> Idle]
    /\ task = << >>
    /\ server_running_ = FALSE
    /\ io_context_ = "none"

\* addSubscription, locked block: both inserts under subscriptions_mutex_.
AddSubscriptionLocked(t, c, i) ==
    /\ th[t].pc = "idle"
    /\ Free("subscriptions_mutex_")
    /\ client_subscriptions_' = AddToClientSubscriptions(client_subscriptions_, c, i)
    /\ instrument_subscribers_' = AddToInstrumentSubscribers(instrument_subscribers_, i, c)
    /\ Advance(t, Begin("add_send", "addSubscription", c, i))
    /\ UNCHANGED <<clients_, conn, held, task>>

\* addSubscription, after the block: the confirmation to the client.
AddSubscriptionSend(t) ==
    /\ th[t].pc = "add_send"
    /\ Advance(t, [th[t] EXCEPT !.pc = "done",
                         !.sent = SendOne(t, @, th[t].c, "subscribed", th[t].i)])
    /\ UNCHANGED <<clients_, client_subscriptions_, instrument_subscribers_, conn, held, task>>

\* removeSubscription, locked block.
RemoveSubscriptionLocked(t, c, i) ==
    /\ th[t].pc = "idle"
    /\ Free("subscriptions_mutex_")
    /\ client_subscriptions_' =
           RemoveFromClientSubscriptions(client_subscriptions_, c, i)
    /\ instrument_subscribers_' =
           RemoveFromInstrumentSubscribers(instrument_subscribers_, i, c)
    /\ Advance(t, Begin("remove_send", "removeSubscription", c, i))
    /\ UNCHANGED <<clients_, conn, held, task>>

\* removeSubscription, after the block: the confirmation to the client.
RemoveSubscriptionSend(t) ==
    /\ th[t].pc = "remove_send"
    /\ Advance(t, [th[t] EXCEPT !.pc = "done",
                         !.sent = SendOne(t, @, th[t].c, "unsubscribed", th[t].i)])
    /\ UNCHANGED <<clients_, client_subscriptions_, instrument_subscribers_, conn, held, task>>

\* removeAllSubscriptions: one locked block; the thread goes on at label pc
\* of operation op (the method called directly, or onClose calling it).
RemoveAllSubscriptionsLocked(t, c, pc, op) ==
    /\ th[t].pc = "idle"
    /\ Free("subscriptions_mutex_")
    /\ LET instruments == MapGet(client_subscriptions_, c)
       IN /\ client_subscriptions_' =
                 RemoveAllClientSubscriptions(client_subscriptions_, c)
          /\ instrument_subscribers_' =
                 RemoveAllInstrumentSubscribers(instrument_subscribers_, instruments, c)
          /\ Advance(t, [Begin(pc, op, c, None) EXCEPT !.instruments = instruments])
    /\ UNCHANGED <<clients_, held, task>>

RemoveAllSubscriptions(t, c) ==
    /\ RemoveAllSubscriptionsLocked(t, c, "done", "removeAllSubscriptions")
    /\ UNCHANGED conn

\* getSubscriptions: one locked block, returns a copy.
GetSubscriptions(t, c) ==
    /\ th[t].pc = "idle"
    /\ Free("subscriptions_mutex_")
    /\ Advance(t, [Begin("done", "getSubscriptions", c, None)
                         EXCEPT !.ret = getSubscriptions(client_subscriptions_, c)])
    /\ UNCHANGED <<clients_, client_subscriptions_, instrument_subscribers_, conn, held, task>>

\* broadcastToSubscribers, first block (subscriptions_mutex_): client_ids.
\* broadcastOrderbook only forwards to broadcastToSubscribers: the same
\* steps, started under the other name.
BroadcastSnapshot(t, i, op) ==
    /\ th[t].pc = "idle"
    /\ Free("subscriptions_mutex_")
    /\ Advance(t, [Begin("bcast_resolve", op, None, i)
                         EXCEPT !.client_ids = SnapshotSubscribers(instrument_subscribers_, i)])
    /\ UNCHANGED <<clients_, client_subscriptions_, instrument_subscribers_, conn, held, task>>

\* broadcastToSubscribers, second block (clients_mutex_): clients.
BroadcastResolve(t) ==
    /\ th[t].pc = "bcast_resolve"
    /\ Free("clients_mutex_")
    /\ Advance(t, [th[t] EXCEPT !.pc = "bcast_send",
                                   !.clients = ResolveClients(clients_, th[t].client_ids)])
    /\ UNCHANGED <<clients_, client_subscriptions_, instrument_subscribers_, conn, held, task>>

\* broadcastToSubscribers, the loop of sends, outside every block.
BroadcastSend(t) ==
    /\ th[t].pc = "bcast_send"
    /\ Advance(t, [th[t] EXCEPT !.pc = "done",
                         !.sent = SendAll(t, @, th[t].clients, "orderbook", th[t].i)])
    /\ UNCHANGED <<clients_, client_subscriptions_, instrument_subscribers_, conn, held, task>>

\* broadcastToAll, the block (clients_mutex_): every connection of clients_.
BroadcastAllSnapshot(t) ==
    /\ th[t].pc = "idle"
    /\ Free("clients_mutex_")
    /\ Advance(t, [Begin("all_send", "broadcastToAll", None, None)
                         EXCEPT !.clients = clients_])
    /\ UNCHANGED <<clients_, client_subscriptions_, instrument_subscribers_, conn, held, task>>

\* broadcastToAll, the loop of sends.
BroadcastAllSend(t) ==
    /\ th[t].pc = "all_send"
    /\ Advance(t, [th[t] EXCEPT !.pc = "done",
                         !.sent = SendAll(t, @, th[t].clients, "broadcast", None)])
    /\ UNCHANGED <<clients_, client_subscriptions_, instrument_subscribers_, conn, held, task>>

\* start: if (running_) return; otherwise running_ is set, the io context
\* and the listener are made and server_thread_ begins to run the
\* handlers.  A run starts the server once: a start after a stop, which
\* replaces the io context the connections of clients_ still refer to, is
\* outside the model.
ServerStart(t) ==
    /\ th[t].pc = "idle"
    /\ server_running_ \/ io_context_ = "none"
    /\ server_running_' = TRUE
    /\ io_context_' = "running"
    /\ th' = Step(t, Begin("done", "start", None, None))
    /\ UNCHANGED <<clients_, client_subscriptions_, instrument_subscribers_, conn, held, task>>
    /\ UNCHANGED <<orderVars, cacheVars>>

\* stop: if (!running_) return; running_ = false;
ServerStopCheck(t) ==
    /\ th[t].pc = "idle"
    /\ server_running_' = FALSE
    /\ th' = Step(t, Begin(IF server_running_ THEN "stop_copy" ELSE "done",
                           "stop", None, None))
    /\ UNCHANGED <<clients_, client_subscriptions_, instrument_subscribers_, conn, held, task>>
    /\ UNCHANGED <<io_context_, orderVars, cacheVars>>

\* stop, the block (clients_mutex_): every connection of clients_.
ServerStopCopy(t) ==
    /\ th[t].pc = "stop_copy"
    /\ Free("clients_mutex_")
    /\ Advance(t, [th[t] EXCEPT !.pc = "stop_close", !.clients = clients_])
    /\ UNCHANGED <<clients_, client_subscriptions_, instrument_subscribers_, conn, held, task>>

\* stop, the loop of connection->close(): each call posts on_close to the
\* connection's strand and returns.
ServerStopClose(t) ==
    /\ th[t].pc = "stop_close"
    /\ conn' = [c \in Connections |->
                   IF c \in th[t].clients /\ conn[c] = "open" THEN "closing" ELSE conn[c]]
    /\ Advance(t, [th[t] EXCEPT !.pc = "stop_io"])
    /\ UNCHANGED <<clients_, client_subscriptions_, instrument_subscribers_, held, task>>

\* stop: io_context_->stop(); run() returns once the handler in progress
\* has finished, and handlers that are posted or pending are left.
ServerStopIo(t) ==
    /\ th[t].pc = "stop_io"
    /\ io_context_' = "stopped"
    /\ th' = Step(t, [th[t] EXCEPT !.pc = "stop_join"])
    /\ UNCHANGED <<clients_, client_subscriptions_, instrument_subscribers_, conn, held, task>>
    /\ UNCHANGED <<server_running_, orderVars, cacheVars>>

\* stop: server_thread_.join() returns when the io thread has left run().
ServerStopJoin(t) ==
    /\ th[t].pc = "stop_join"
    /\ th[IoThread].pc = "idle"
    /\ Advance(t, [th[t] EXCEPT !.pc = "done"])
    /\ UNCHANGED <<clients_, client_subscriptions_, instrument_subscribers_, conn, held, task>>

\* The operation returns: its locals go, and so does every lock_guard whose
\* scope is the function body.
Return(t) ==
    /\ th[t].pc = "done"
    /\ Advance(t, Idle)
    /\ held' = [held EXCEPT ![t] = {}]
    /\ UNCHANGED <<clients_, client_subscriptions_, instrument_subscribers_, conn, task>>

\* ------------------------------------------------------------------------
\* WebSocketServer: the handlers, steps of the io thread
\* ------------------------------------------------------------------------

\* An inbound frame, as handleMessage reads it: which "type" text it finds,
\* and the instrument it can extract (None when the frame has no
\* "instrument": key or no closing quote after it).
Frames == [type : {"subscribe", "unsubscribe", "other"},
           instrument : Instruments \cup {None}]

\* A faulty onAccept that does not insert the connection.
OnAcceptUnregistered(c) ==
    /\ io_context_ = "running"
    /\ th[IoThread].pc = "idle"
    /\ conn[c] = "new"
    /\ Free("clients_mutex_")
    /\ held' = [held EXCEPT ![IoThread] = @ \cup {"clients_mutex_"}]
    /\ conn' = [conn EXCEPT ![c] = "open"]
    /\ Advance(IoThread, Begin("accept_send", "onAccept", c, None))
    /\ UNCHANGED <<clients_, client_subscriptions_, instrument_subscribers_, task>>

\* onAccept, up to the send: lock_guard on clients_mutex_ (kept until the
\* function returns) and the insert into clients_.
OnAccept(c) ==
    /\ io_context_ = "running"
    /\ th[IoThread].pc = "idle"
    /\ conn[c] = "new"
    /\ Free("clients_mutex_")
    /\ held' = [held EXCEPT ![IoThread] = @ \cup {"clients_mutex_"}]
    /\ clients_' = clients_ \cup {c}
    /\ conn' = [conn EXCEPT ![c] = "open"]
    /\ Advance(IoThread, Begin("accept_send", "onAccept", c, None))
    /\ UNCHANGED <<client_subscriptions_, instrument_subscribers_, task>>

\* onAccept, the welcome message.
AcceptSend ==
    /\ th[IoThread].pc = "accept_send"
    /\ Advance(IoThread, [th[IoThread] EXCEPT !.pc = "done",
                  !.sent = SendOne(IoThread, @, th[IoThread].c, "welcome", None)])
    /\ UNCHANGED <<clients_, client_subscriptions_, instrument_subscribers_, conn, held, task>>

\* onMessage -> handleMessage: a subscribe or unsubscribe frame whose
\* instrument can be extracted calls addSubscription / removeSubscription;
\* one whose instrument cannot be extracted does nothing; any other frame
\* is answered with the error message.
OnMessage(c, frame) ==
    /\ io_context_ = "running"
    /\ conn[c] = "open"
    /\ \/ /\ frame.type = "subscribe"
          /\ frame.instrument # None
          /\ AddSubscriptionLocked(IoThread, c, frame.instrument)
       \/ /\ frame.type = "unsubscribe"
          /\ frame.instrument # None
          /\ RemoveSubscriptionLocked(IoThread, c, frame.instrument)
       \/ /\ frame.type \in {"subscribe", "unsubscribe"}
          /\ frame.instrument = None
          /\ th[IoThread].pc = "idle"
          /\ Advance(IoThread, Begin("done", "handleMessage", c, None))
          /\ UNCHANGED <<clients_, client_subscriptions_, instrument_subscribers_, conn, held, task>>
       \/ /\ frame.type = "other"
          /\ th[IoThread].pc = "idle"
          /\ Advance(IoThread, [Begin("done", "handleMessage", c, None) EXCEPT
                        !.sent = SendOne(IoThread, << >>, c, "error", None)])
          /\ UNCHANGED <<clients_, client_subscriptions_, instrument_subscribers_, conn, held, task>>

\* onClose, first part: removeAllSubscriptions(connection).  The close
\* handler runs once the socket has closed.
OnClose(c) ==
    /\ io_context_ = "running"
    /\ conn[c] \in {"open", "closing"}
    /\ RemoveAllSubscriptionsLocked(IoThread, c, "close_erase", "onClose")
    /\ conn' = [conn EXCEPT ![c] = "closed"]

\* onClose, second part: clients_.erase(client_id) under clients_mutex_.
CloseErase ==
    /\ th[IoThread].pc = "close_erase"
    /\ Free("clients_mutex_")
    /\ clients_' = clients_ \ {th[IoThread].c}
    /\ Advance(IoThread, [th[IoThread] EXCEPT !.pc = "done"])
    /\ UNCHANGED <<client_subscriptions_, instrument_subscribers_, conn, held, task>>

BrokerNext ==
    \/ \E t \in Callers : ServerStart(t)
    \/ \E t \in Callers, c \in Connections, i \in Instruments :
          \/ AddSubscriptionLocked(t, c, i)
          \/ RemoveSubscriptionLocked(t, c, i)
    \/ \E t \in Threads : AddSubscriptionSend(t)
    \/ \E t \in Threads : RemoveSubscriptionSend(t)
    \/ \E t \in Callers, c \in Connections :
          \/ RemoveAllSubscriptions(t, c)
          \/ GetSubscriptions(t, c)
    \/ \E t \in Callers, i \in Instruments,
          op \in {"broadcastToSubscribers", "broadcastOrderbook"} :
          BroadcastSnapshot(t, i, op)
    \/ \E t \in Callers :
          \/ BroadcastResolve(t)
          \/ BroadcastSend(t)
          \/ BroadcastAllSnapshot(t)
          \/ BroadcastAllSend(t)
    \/ \E t \in Threads : Return(t)
    \/ \E c \in Connections : OnAccept(c)
    \/ AcceptSend
    \/ \E c \in Connections, frame \in Frames : OnMessage(c, frame)
    \/ \E c \in Connections : OnClose(c)
    \/ CloseErase


\* ------------------------------------------------------------------------
\* The concurrency test: every worker performs one addSubscription or one
\* removeSubscription on its own pair, concurrently with the others
\* ------------------------------------------------------------------------

AllPairs == [c : Connections, i : Instruments]

\* The two indexes as addSubscription builds them from a set of pairs.
ClientSubscriptionsOf(P) ==
    [c \in {p.c : p \in P} |-> {p.i : p \in {q \in P : q.c = c}}]

InstrumentSubscribersOf(P) ==
    [i \in {p.i : p \in P} |-> {p.c : p \in {q \in P : q.i = i}}]

\* Both connections are accepted; any set of pairs is already subscribed;
\* every worker is given its operation.
ConcurrentInit ==
    /\ clients_ = Connections
    /\ conn = [c \in Connections |-> "open"]
    /\ held = [t \in Threads |-> {}]
    /\ th = [t \in Threads |-> Idle]
    /\ server_running_ = TRUE
    /\ io_context_ = "running"
    /\ \E P \in SUBSET AllPairs, ops \in [Workers -> {"add", "remove"}] :
          /\ task = [initial |-> P, ops |-> ops]
          /\ client_subscriptions_ = ClientSubscriptionsOf(P)
          /\ instrument_subscribers_ = InstrumentSubscribersOf(P)

ConcurrentNext ==
    \E w \in Workers :
       \/ /\ task.ops[w] = "add"
          /\ AddSubscriptionLocked(w, WorkerPair[w].c, WorkerPair[w].i)
       \/ /\ task.ops[w] = "remove"
          /\ RemoveSubscriptionLocked(w, WorkerPair[w].c, WorkerPair[w].i)
       \/ AddSubscriptionSend(w)
       \/ RemoveSubscriptionSend(w)


\* ------------------------------------------------------------------------
\* The application starts and stops the server while the io thread runs the
\* handlers of the connections
\* ------------------------------------------------------------------------

StopNext ==
    \/ \E t \in Callers :
          \/ ServerStart(t)
          \/ ServerStopCheck(t)
          \/ ServerStopCopy(t)
          \/ ServerStopClose(t)
          \/ ServerStopIo(t)
          \/ ServerStopJoin(t)
    \/ \E c \in Connections : OnAccept(c)
    \/ AcceptSend
    \/ \E c \in Connections, frame \in Frames : OnMessage(c, frame)
    \/ AddSubscriptionSend(IoThread)
    \/ RemoveSubscriptionSend(IoThread)
    \/ \E c \in Connections : OnClose(c)
    \/ CloseErase
    \/ \E t \in Callers \cup {IoThread} : Return(t)

\* Every operation of the broker, stop among them, against the handlers.
MutexNext ==
    \/ BrokerNext
    \/ \E t \in Callers :
          \/ ServerStopCheck(t)
          \/ ServerStopCopy(t)
          \/ ServerStopClose(t)
          \/ ServerStopIo(t)
          \/ ServerStopJoin(t)

\* ------------------------------------------------------------------------
\* Broadcasts against the handling of frames: two threads broadcast (the
\* thread of the link in processMessage and the thread that called
\* subscribe in fetchInitialOrderbook both invoke the callback that calls
\* broadcastOrderbook) while the io thread handles the frames of the
\* connections
\* ------------------------------------------------------------------------

Broadcasters == {"w1", "w2"}

\* Both connections are accepted and subscribed to both instruments.
RaceInit ==
    /\ clients_ = Connections
    /\ conn = [c \in Connections |-> "open"]
    /\ held = [t \in Threads |-> {}]
    /\ th = [t \in Threads |-> Idle]
    /\ task = << >>
    /\ server_running_ = TRUE
    /\ io_context_ = "running"
    /\ client_subscriptions_ = ClientSubscriptionsOf(AllPairs)
    /\ instrument_subscribers_ = InstrumentSubscribersOf(AllPairs)

RaceNext ==
    \/ \E w \in Broadcasters, i \in Instruments :
          BroadcastSnapshot(w, i, "broadcastOrderbook")
    \/ \E w \in Broadcasters : BroadcastResolve(w)
    \/ \E w \in Broadcasters : BroadcastSend(w)
    \/ \E c \in Connections, frame \in Frames : OnMessage(c, frame)
    \/ AddSubscriptionSend(IoThread)
    \/ RemoveSubscriptionSend(IoThread)
    \/ \E t \in Broadcasters \cup {IoThread} : Return(t)

\* ------------------------------------------------------------------------
\* Subscription Broker: properties
\* ------------------------------------------------------------------------

\* The pairs each index holds.
PairsOfClientSubscriptions ==
    {p \in AllPairs : p.i \in MapGet(client_subscriptions_, p.c)}

PairsOfInstrumentSubscribers ==
    {p \in AllPairs : p.c \in MapGet(instrument_subscribers_, p.i)}

\* Connection c is in neither index.
InNoIndex(cs, is, c) ==
    /\ c \notin DOMAIN cs
    /\ \A i \in Instruments : c \notin MapGet(is, i)

\* C1: in every reachable state of the broker, whatever addSubscription,
\* removeSubscription, removeAllSubscriptions and close handlers have run
\* and however they interleaved, instrument i is in the set of connection c
\* in client_subscriptions_ iff c is in the set of i in
\* instrument_subscribers_.
IndexesAgree ==
    \A c \in Connections, i \in Instruments :
        i \in MapGet(client_subscriptions_, c)
            <=> c \in MapGet(instrument_subscribers_, i)

\* C1, its case: a connection has been closed, another has an entry that an
\* unsubscribe emptied, and a pair is subscribed.
IndexesAgreeWitness ==
    /\ \E c \in Connections : conn[c] = "closed" /\ c \notin clients_
    /\ \E c \in DOMAIN client_subscriptions_ : client_subscriptions_[c] = {}
    /\ PairsOfClientSubscriptions # {}

\* C2 as stated: no send of the broker is made while the sending thread
\* holds a mutex.
NoSendUnderMutex ==
    \A t \in Threads : \A k \in DOMAIN th[t].sent : th[t].sent[k].held = {}

\* C3 as stated: a broadcastToSubscribers (or broadcastOrderbook) for
\* instrument i that ran with no other thread taking a step has sent exactly
\* to the connections subscribed to i.
BroadcastReachesSubscribers ==
    \A t \in Threads :
        ( /\ th[t].op \in {"broadcastToSubscribers", "broadcastOrderbook"}
          /\ th[t].pc = "done"
          /\ th[t].alone )
        => Recipients(th[t].sent)
               = {c \in Connections : th[t].i \in getSubscriptions(client_subscriptions_, c)}

\* C4 as stated: the step of the close handler that removes the
\* subscriptions leaves the closing connection in neither index and still
\* in the connection table, and when the handler has finished the
\* connection is in neither index nor in the connection table.
CloseRemovesEverything ==
    [][ /\ ( th[IoThread].pc = "idle" /\ th'[IoThread].pc = "close_erase" )
           => /\ InNoIndex(client_subscriptions_', instrument_subscribers_',
                           th'[IoThread].c)
              /\ clients_' = clients_
        /\ ( th[IoThread].pc = "close_erase" /\ th'[IoThread].pc = "done" )
           => /\ InNoIndex(client_subscriptions_', instrument_subscribers_',
                           th'[IoThread].c)
              /\ th'[IoThread].c \notin clients_' ]_vars

\* The pairs the workers add and remove, and what must be left.
AddedPairs == {WorkerPair[w] : w \in {x \in Workers : task.ops[x] = "add"}}

RemovedPairs == {WorkerPair[w] : w \in {x \in Workers : task.ops[x] = "remove"}}

SettledPairs == (task.initial \cup AddedPairs) \ RemovedPairs

AllWorkersReturned == \A w \in Workers : th[w].pc = "done"

\* C5: once every worker's addSubscription / removeSubscription on its own
\* pair has returned, whatever the interleaving was, both indexes hold
\* exactly the pairs subscribed at the start or added, minus those removed;
\* their size is the initial size plus the net adds; and they agree.
ConcurrentOperationsSettle ==
    AllWorkersReturned =>
        /\ PairsOfClientSubscriptions = SettledPairs
        /\ PairsOfInstrumentSubscribers = SettledPairs
        /\ Cardinality(PairsOfInstrumentSubscribers)
               = Cardinality(task.initial)
                 + Cardinality(AddedPairs \ task.initial)
                 - Cardinality(RemovedPairs \cap task.initial)
        /\ IndexesAgree

\* C5, its case: all workers have returned, at least one ran interleaved
\* with another, a pair was added that was not there and a pair removed
\* that was, on an instrument another connection stays subscribed to.
ConcurrentOperationsSettleWitness ==
    /\ AllWorkersReturned
    /\ \E w \in Workers : ~th[w].alone
    /\ AddedPairs \ task.initial # {}
    /\ \E p \in RemovedPairs \cap task.initial :
          \E q \in SettledPairs : q.i = p.i /\ q.c # p.c

\* C6: the locked step of addSubscription(c, i) leaves i in
\* getSubscriptions(c); the locked step of removeAllSubscriptions(c) leaves
\* getSubscriptions(c) empty and c in no instrument's subscriber set, and
\* does not change what any other connection is subscribed to in either
\* index.
AddThenRemoveAll ==
    [][ \A t \in Threads :
          /\ ( th[t].pc = "idle" /\ th'[t].op = "addSubscription" )
             => th'[t].i \in getSubscriptions(client_subscriptions_', th'[t].c)
          /\ ( th[t].pc = "idle" /\ th'[t].op = "removeAllSubscriptions" )
             => /\ getSubscriptions(client_subscriptions_', th'[t].c) = {}
                /\ \A i \in Instruments :
                      /\ th'[t].c \notin MapGet(instrument_subscribers_', i)
                      /\ MapGet(instrument_subscribers_', i) \ {th'[t].c}
                            = MapGet(instrument_subscribers_, i) \ {th'[t].c}
                /\ \A d \in Connections \ {th'[t].c} :
                      getSubscriptions(client_subscriptions_', d)
                          = getSubscriptions(client_subscriptions_, d) ]_vars

\* C6, its case: removeAllSubscriptions has just removed two instruments of
\* a connection while another connection is subscribed.
AddThenRemoveAllWitness ==
    \E t \in Threads :
        /\ th[t].op = "removeAllSubscriptions"
        /\ th[t].pc = "done"
        /\ th[t].alone
        /\ Cardinality(th[t].instruments) = 2
        /\ \E d \in Connections \ {th[t].c} :
              getSubscriptions(client_subscriptions_, d) # {}

\* ------------------------------------------------------------------------
\* OrderManager
\* ------------------------------------------------------------------------

\* The clock is read up to MaxClock.
MaxClock == 2

\* A run makes at most MaxCalls calls of OrderManager methods.
MaxCalls == 3

\* Amounts (requested and filled) are 0..MaxAmount units.
MaxAmount == 2

\* The arguments placeOrder is called with.
PlaceRequests ==
    {[instrument |-> "BTC-PERPETUAL", side |-> "BUY", price |-> 50000,
      amount |-> MaxAmount, type |-> "LIMIT"],
     [instrument |-> "ETH-PERPETUAL", side |-> "SELL", price |-> 3000,
      amount |-> 1, type |-> "MARKET"]}

\* The (new_price, new_amount) modifyOrder is called with.
ModifyRequests ==
    {[new_price |-> 51000, new_amount |-> 1],
     [new_price |-> 3000, new_amount |-> MaxAmount]}

\* "order_" + std::to_string(ticks)
OrderId(ticks) == <<"order_", ticks>>

OrderIds == {OrderId(n) : n \in 0..MaxClock}

\* A field a JSON payload does not have, or has with another type than
\* get<T>() asks for (both make get<T>() throw): as a text, as an order id,
\* as an amount.
Absent == "absent"

AbsentId == <<Absent, 0>>

AbsentAmount == -1

\* A faulty placeOrder that leaves the status at its default, PENDING.
NewOrderPending(id, instrument, side, price, amount, type, created) ==
    [order_id |-> id, instrument |-> instrument, side |-> side, type |-> type,
     price |-> price, amount |-> amount, filled_amount |-> 0,
     status |-> "PENDING", error_message |-> "",
     creation_timestamp |-> created, last_update_timestamp |-> created]

\* Order order; with the fields placeOrder assigns.  filled_amount and
\* error_message keep their default member initialisers.
NewOrder(id, instrument, side, price, amount, type, created) ==
    [order_id |-> id, instrument |-> instrument, side |-> side, type |-> type,
     price |-> price, amount |-> amount, filled_amount |-> 0,
     status |-> "OPEN", error_message |-> "",
     creation_timestamp |-> created, last_update_timestamp |-> created]

\* A faulty assignment that keeps the value a key already has.
MapPutIfAbsent(m, k, v) ==
    [x \in DOMAIN m \cup {k} |-> IF x \in DOMAIN m THEN m[x] ELSE v]

\* orders_[order_id] = order
MapPut(m, k, v) == [x \in DOMAIN m \cup {k} |-> IF x = k THEN v ELSE m[x]]

\* getOrder: the order, or the REJECTED sentinel "Order not found".  The
\* sentinel's other fields are not initialised by the code and are left out.
getOrder(orders, id) ==
    IF id \in DOMAIN orders THEN orders[id]
    ELSE [order_id |-> id, status |-> "REJECTED", error_message |-> "Order not found",
          filled_amount |-> 0]

\* A faulty cancelOrder that leaves an order with fills as it is.
CancelledOrderUnlessFilled(order, t) ==
    IF order.filled_amount > 0 THEN order
    ELSE [order EXCEPT !.status = "CANCELLED", !.last_update_timestamp = t]

\* cancelOrder, the body of if (success) for an order of the table.
CancelledOrder(order, t) ==
    [order EXCEPT !.status = "CANCELLED", !.last_update_timestamp = t]

\* A faulty modifyOrder that starts the order afresh.
ModifiedOrderReset(order, new_price, new_amount, t) ==
    [order EXCEPT !.price = new_price, !.amount = new_amount,
                  !.filled_amount = 0, !.status = "OPEN",
                  !.last_update_timestamp = t]

\* modifyOrder, the body of if (success) for an order of the table.
ModifiedOrder(order, new_price, new_amount, t) ==
    [order EXCEPT !.price = new_price, !.amount = new_amount,
                  !.last_update_timestamp = t]

\* An order update as onOrderUpdate decodes it: the updates with all three
\* fields (an "error" is read for the state "rejected" only, so only such
\* updates are given one), the updates with one field missing, and the text
\* that does not parse as a JSON object (wellformed = FALSE).
OrderUpdates ==
    [wellformed : {TRUE},
     order_id : OrderIds,
     state : {"open", "filled", "cancelled", "rejected", "untriggered"},
     filled_amount : 0..MaxAmount,
     error : {Absent}]
    \cup
    [wellformed : {TRUE},
     order_id : OrderIds,
     state : {"rejected"},
     filled_amount : {1},
     error : {"insufficient_funds", "not_a_string"}]
    \cup
    [wellformed : {TRUE},
     order_id : OrderIds,
     state : {Absent},
     filled_amount : 0..MaxAmount,
     error : {Absent}]
    \cup
    [wellformed : {TRUE},
     order_id : OrderIds,
     state : {"open"},
     filled_amount : {AbsentAmount},
     error : {Absent}]
    \cup
    {[wellformed |-> TRUE, order_id |-> AbsentId, state |-> "open",
      filled_amount |-> 0, error |-> Absent],
     [wellformed |-> FALSE, order_id |-> AbsentId, state |-> Absent,
      filled_amount |-> AbsentAmount, error |-> Absent]}

\* json::parse or one of the three get<T>() calls throws: the catch block
\* is entered before anything has been changed.
UpdateThrowsEarly(m) ==
    \/ ~m.wellformed
    \/ m.order_id = AbsentId
    \/ m.state = Absent
    \/ m.filled_amount = AbsentAmount

\* A faulty status chain without the "cancelled" and "rejected" branches.
UpdatedStatusTwoBranches(order, state, filled_amount) ==
    IF state = "open" THEN "OPEN"
    ELSE IF state = "filled" THEN "FILLED"
    ELSE IF filled_amount > 0 /\ filled_amount < order.amount THEN "PARTIALLY_FILLED"
    ELSE order.status

\* onOrderUpdate, the status chain for an order of the table.
UpdatedStatus(order, state, filled_amount) ==
    IF state = "open" THEN "OPEN"
    ELSE IF state = "filled" THEN "FILLED"
    ELSE IF state = "cancelled" THEN "CANCELLED"
    ELSE IF state = "rejected" THEN "REJECTED"
    ELSE IF filled_amount > 0 /\ filled_amount < order.amount THEN "PARTIALLY_FILLED"
    ELSE order.status

\* onOrderUpdate, the error message: stored for "rejected" when the payload
\* has a string "error"; a non-string "error" makes get<std::string>()
\* throw after the other fields have been written.
UpdatedErrorMessage(order, state, error) ==
    IF state = "rejected" /\ error \notin {Absent, "not_a_string"}
    THEN error
    ELSE order.error_message

\* onOrderUpdate, the locked block for an order of the table.
UpdatedOrder(order, m, t) ==
    [order EXCEPT !.filled_amount = m.filled_amount,
                  !.last_update_timestamp = t,
                  !.status = UpdatedStatus(order, m.state, m.filled_amount),
                  !.error_message = UpdatedErrorMessage(order, m.state, m.error)]

OrderInit ==
    /\ orders_ = << >>
    /\ now = 0
    /\ calls = 0
    /\ ret = [op |-> None]
    /\ positions_ = << >>

\* A method of the OrderManager can be called: the run has calls left and
\* the process has not been aborted.
CanCall == calls < MaxCalls /\ ret.op # "abort"

\* The system clock advances.
Tick ==
    /\ now < MaxClock
    /\ now' = now + 1
    /\ UNCHANGED <<orders_, calls, ret, positions_>>
    /\ UNCHANGED <<brokerVars, cacheVars>>

\* placeOrder: the id is made from one reading of the clock, the creation
\* timestamp from a second one, elapsed ticks later.
PlaceOrder(instrument, side, price, amount, type, elapsed) ==
    /\ CanCall
    /\ calls' = calls + 1
    /\ now + elapsed <= MaxClock
    /\ LET order_id == OrderId(now)
           order == NewOrder(order_id, instrument, side, price, amount, type,
                             now + elapsed)
       IN /\ orders_' = MapPut(orders_, order_id, order)
          /\ ret' = [op |-> "placeOrder", value |-> order_id]
    /\ now' = now + elapsed
    /\ UNCHANGED <<positions_, brokerVars, cacheVars>>

\* cancelOrder: success is what the Exchange Link answered.
CancelOrder(order_id, success) ==
    /\ CanCall
    /\ calls' = calls + 1
    /\ orders_' = IF success /\ order_id \in DOMAIN orders_
                  THEN [orders_ EXCEPT ![order_id] = CancelledOrder(@, now)]
                  ELSE orders_
    /\ ret' = [op |-> "cancelOrder", value |-> success]
    /\ UNCHANGED <<now, positions_, brokerVars, cacheVars>>

\* A faulty modifyOrder that writes whatever the Exchange Link answered.
ModifyOrderUnchecked(order_id, new_price, new_amount, success) ==
    /\ CanCall
    /\ calls' = calls + 1
    /\ orders_' = IF order_id \in DOMAIN orders_
                  THEN [orders_ EXCEPT ![order_id] =
                            ModifiedOrder(@, new_price, new_amount, now)]
                  ELSE orders_
    /\ ret' = [op |-> "modifyOrder", value |-> success]
    /\ UNCHANGED <<now, positions_, brokerVars, cacheVars>>

\* modifyOrder: success is what the Exchange Link answered.
ModifyOrder(order_id, new_price, new_amount, success) ==
    /\ CanCall
    /\ calls' = calls + 1
    /\ orders_' = IF success /\ order_id \in DOMAIN orders_
                  THEN [orders_ EXCEPT ![order_id] =
                            ModifiedOrder(@, new_price, new_amount, now)]
                  ELSE orders_
    /\ ret' = [op |-> "modifyOrder", value |-> success]
    /\ UNCHANGED <<now, positions_, brokerVars, cacheVars>>

\* onOrderUpdate: nothing escapes the try block, nothing is returned.
OnOrderUpdate(m) ==
    /\ CanCall
    /\ calls' = calls + 1
    /\ orders_' = IF ~UpdateThrowsEarly(m) /\ m.order_id \in DOMAIN orders_
                  THEN [orders_ EXCEPT ![m.order_id] = UpdatedOrder(@, m, now)]
                  ELSE orders_
    /\ ret' = [op |-> "onOrderUpdate"]
    /\ UNCHANGED <<now, positions_, brokerVars, cacheVars>>

\* getOrder: a copy of the order or the sentinel is returned; orders_ is
\* only read (find and at on a const map).
GetOrder(order_id) ==
    /\ CanCall
    /\ calls' = calls + 1
    /\ ret' = [op |-> "getOrder", order |-> getOrder(orders_, order_id)]
    /\ UNCHANGED <<orders_, now, positions_, brokerVars, cacheVars>>

\* The copies getAllOrders pushes into its result: every order of the map.
AllOrders(orders) == {orders[id] : id \in DOMAIN orders}

\* A faulty getOpenOrders that takes the orders of status OPEN only.
OpenOrdersOnlyOpen(orders) ==
    {orders[id] : id \in {x \in DOMAIN orders : orders[x].status = "OPEN"}}

\* The copies getOpenOrders pushes into its result: the orders whose status
\* is OPEN or PARTIALLY_FILLED.
OpenOrders(orders) ==
    {orders[id] : id \in {x \in DOMAIN orders :
                             \/ orders[x].status = "OPEN"
                             \/ orders[x].status = "PARTIALLY_FILLED"}}

\* The comparator of both std::sort calls.
CreatedAfter(a, b) == a.creation_timestamp > b.creation_timestamp

\* What std::sort can leave in result: the pushed copies, each once, no
\* element before one the comparator puts ahead of it.  std::sort is not
\* stable, so orders of equal creation timestamp come in any order.
Sorted(copies) ==
    {result \in [1..Cardinality(copies) -> copies] :
        /\ \A j, k \in 1..Cardinality(copies) : j # k => result[j] # result[k]
        /\ \A j, k \in 1..Cardinality(copies) :
              j < k => ~CreatedAfter(result[k], result[j])}

\* getAllOrders: orders_ is only read (a const method).
GetAllOrders ==
    /\ CanCall
    /\ calls' = calls + 1
    /\ \E result \in Sorted(AllOrders(orders_)) :
          ret' = [op |-> "getAllOrders", result |-> result]
    /\ UNCHANGED <<orders_, now, positions_, brokerVars, cacheVars>>

\* getOpenOrders: orders_ is only read (a const method).
GetOpenOrders ==
    /\ CanCall
    /\ calls' = calls + 1
    /\ \E result \in Sorted(OpenOrders(orders_)) :
          ret' = [op |-> "getOpenOrders", result |-> result]
    /\ UNCHANGED <<orders_, now, positions_, brokerVars, cacheVars>>

\* A field of a JSON payload that is there with a type get<double>() does
\* not convert.
NotANumber == -2

\* One element of a position update.  A missing field is Absent (the name)
\* or AbsentAmount (the size).
PositionEntries ==
    [instrument_name : Instruments, size : {1, MaxAmount}]
    \cup
    {[instrument_name |-> Absent, size |-> 1],
     [instrument_name |-> "BTC-PERPETUAL", size |-> AbsentAmount],
     [instrument_name |-> "ETH-PERPETUAL", size |-> NotANumber]}

\* A position update as onPositionUpdate decodes it: a text that does not
\* parse, a JSON value that is not an array, or an array of up to two
\* elements.
PositionUpdates ==
    {[wellformed |-> FALSE, is_array |-> FALSE, entries |-> << >>],
     [wellformed |-> TRUE, is_array |-> FALSE, entries |-> << >>]}
    \cup
    [wellformed : {TRUE}, is_array : {TRUE},
     entries : {<< >>} \cup {<<e>> : e \in PositionEntries}
                      \cup {<<e, f>> : e \in PositionEntries, f \in PositionEntries}]

\* A faulty onPositionUpdate that merges the update into the old table.
StorePositionsMerged(positions, entries) ==
    IF entries = << >> THEN [positions |-> positions_, outcome |-> "done"]
    ELSE [positions |->
             [i \in DOMAIN positions_ \cup {entries[k].instrument_name : k \in DOMAIN entries}
                 |-> IF \E k \in DOMAIN entries : entries[k].instrument_name = i
                     THEN entries[CHOOSE k \in DOMAIN entries :
                                      entries[k].instrument_name = i].size
                     ELSE positions_[i]],
          outcome |-> "done"]

\* onPositionUpdate, the loop over the array after positions_.clear().
\* outcome "done": every element was stored.  "throw": get<double>() met a
\* size of another type; the elements before it are stored.  "undefined":
\* position is a const json&, and operator[] const with a key the object
\* does not have is undefined behaviour; the elements before it are stored.
RECURSIVE StorePositions(_, _)
StorePositions(positions, entries) ==
    IF entries = << >> THEN [positions |-> positions, outcome |-> "done"]
    ELSE LET position == Head(entries)
         IN IF position.instrument_name = Absent \/ position.size = AbsentAmount
            THEN [positions |-> positions, outcome |-> "undefined"]
            ELSE IF position.size = NotANumber
            THEN [positions |-> positions, outcome |-> "throw"]
            ELSE StorePositions(MapPut(positions, position.instrument_name,
                                       position.size),
                                Tail(entries))

\* onPositionUpdate.  undefined is what the build makes of the undefined
\* behaviour: "abort" (the library's assertion ends the process) or "throw"
\* (an exception that the catch block takes).
OnPositionUpdate(p, undefined) ==
    /\ CanCall
    /\ calls' = calls + 1
    /\ LET stored == StorePositions(<< >>, p.entries)
       IN /\ positions_' = IF p.wellformed /\ p.is_array
                           THEN stored.positions
                           ELSE positions_
          /\ ret' = IF /\ p.wellformed /\ p.is_array
                       /\ stored.outcome = "undefined" /\ undefined = "abort"
                    THEN [op |-> "abort"]
                    ELSE [op |-> "onPositionUpdate"]
    /\ UNCHANGED <<orders_, now, brokerVars, cacheVars>>

OrderNext ==
    \/ Tick
    \/ \E r \in PlaceRequests, elapsed \in {0, 1} :
          PlaceOrder(r.instrument, r.side, r.price, r.amount, r.type, elapsed)
    \/ \E order_id \in OrderIds, success \in BOOLEAN : CancelOrder(order_id, success)
    \/ \E order_id \in OrderIds, r \in ModifyRequests, success \in BOOLEAN :
          ModifyOrder(order_id, r.new_price, r.new_amount, success)
    \/ \E m \in OrderUpdates : OnOrderUpdate(m)

\* The order updates the queries are run against: a partial fill, a fill
\* and a rejection of each order.
QueryUpdates ==
    {m \in OrderUpdates :
        /\ ~UpdateThrowsEarly(m)
        /\ m.error = Absent
        /\ \/ m.state = "untriggered" /\ m.filled_amount = 1
           \/ m.state = "filled" /\ m.filled_amount = MaxAmount
           \/ m.state = "rejected" /\ m.filled_amount = 0}

\* The registry after two placements and a partial fill: the first order
\* took its id at tick 0 and its creation timestamp at tick 1 and has one
\* unit filled, the second was placed at tick 1 and is open.
QueryInit ==
    /\ orders_ =
          LET first == NewOrder(OrderId(0), "BTC-PERPETUAL", "BUY", 50000,
                                MaxAmount, "LIMIT", 1)
              second == NewOrder(OrderId(1), "ETH-PERPETUAL", "SELL", 3000,
                                 1, "MARKET", 1)
              m == [wellformed |-> TRUE, order_id |-> OrderId(0),
                    state |-> "untriggered", filled_amount |-> 1,
                    error |-> Absent]
          IN MapPut(MapPut(<< >>, OrderId(0), UpdatedOrder(first, m, 1)),
                    OrderId(1), second)
    /\ now = 1
    /\ calls = 0
    /\ ret = [op |-> None]
    /\ positions_ = << >>

\* The OrderManager with its two list queries.
QueryNext ==
    \/ Tick
    \/ \E r \in PlaceRequests, elapsed \in {0, 1} :
          PlaceOrder(r.instrument, r.side, r.price, r.amount, r.type, elapsed)
    \/ \E order_id \in OrderIds : CancelOrder(order_id, TRUE)
    \/ \E m \in QueryUpdates : OnOrderUpdate(m)
    \/ GetAllOrders
    \/ GetOpenOrders

\* ------------------------------------------------------------------------
\* OrderManager: properties
\* ------------------------------------------------------------------------

TerminalStatuses == {"FILLED", "CANCELLED", "REJECTED"}

\* The status each recognised external state stands for.
StatusOfState ==
    [open |-> "OPEN", filled |-> "FILLED", cancelled |-> "CANCELLED",
     rejected |-> "REJECTED"]

\* C7 as stated: a step of onOrderUpdate or of modifyOrder leaves the
\* status of every order that is FILLED, CANCELLED or REJECTED as it is.
TerminalStatusStays ==
    [][ ( \/ \E m \in OrderUpdates : OnOrderUpdate(m)
          \/ \E order_id \in OrderIds, r \in ModifyRequests, success \in BOOLEAN :
                ModifyOrder(order_id, r.new_price, r.new_amount, success) )
        => \A id \in DOMAIN orders_ :
              orders_[id].status \in TerminalStatuses
                  => /\ id \in DOMAIN orders_'
                     /\ orders_'[id].status = orders_[id].status ]_vars

\* C8: onOrderUpdate for an id of the table with state "open", "filled",
\* "cancelled" or "rejected" and a filled amount leaves the order with the
\* status of that state and the supplied filled amount, and for "rejected"
\* with the supplied error text; for an id that is not in the table it
\* leaves the table as it was.
OrderUpdateApplied ==
    [][ \A m \in OrderUpdates :
          OnOrderUpdate(m) =>
            /\ ( /\ m.order_id \in DOMAIN orders_
                 /\ m.state \in DOMAIN StatusOfState
                 /\ m.filled_amount \in 0..MaxAmount )
               => /\ DOMAIN orders_' = DOMAIN orders_
                  /\ orders_'[m.order_id].status = StatusOfState[m.state]
                  /\ orders_'[m.order_id].filled_amount = m.filled_amount
                  /\ ( m.state = "rejected" /\ m.error = "insufficient_funds" )
                     => orders_'[m.order_id].error_message = m.error
                  /\ \A id \in DOMAIN orders_ \ {m.order_id} :
                        orders_'[id] = orders_[id]
            /\ m.order_id \notin DOMAIN orders_ => orders_' = orders_ ]_vars

\* C8, its case: an update has rejected an order of the table with an
\* error text and a filled amount, next to an order it left alone.
OrderUpdateAppliedWitness ==
    /\ ret.op = "onOrderUpdate"
    /\ \E id \in DOMAIN orders_ :
          /\ orders_[id].status = "REJECTED"
          /\ orders_[id].error_message = "insufficient_funds"
          /\ orders_[id].filled_amount = 1
          /\ \E other \in DOMAIN orders_ \ {id} : orders_[other].status = "OPEN"

\* C9 as stated: onOrderUpdate for an order of the table, without "state"
\* and with 0 < filled_amount < amount, leaves the order PARTIALLY_FILLED
\* with the supplied filled amount.
PartialFillInferred ==
    [][ \A m \in OrderUpdates :
          ( /\ OnOrderUpdate(m)
            /\ m.wellformed
            /\ m.order_id \in DOMAIN orders_
            /\ m.state = Absent
            /\ m.filled_amount > 0
            /\ m.filled_amount < orders_[m.order_id].amount )
          => /\ orders_'[m.order_id].status = "PARTIALLY_FILLED"
             /\ orders_'[m.order_id].filled_amount = m.filled_amount ]_vars

\* C10: placeOrder returns a non-empty id, and getOrder of that id is an
\* order with status OPEN, the instrument, side, type, price and amount of
\* the call, filled amount 0 and a last-update timestamp equal to its
\* creation timestamp.
PlacedOrderIsOpen ==
    [][ \A r \in PlaceRequests, elapsed \in {0, 1} :
          PlaceOrder(r.instrument, r.side, r.price, r.amount, r.type, elapsed)
          => /\ Len(ret'.value) > 0
             /\ ret'.value[1] # ""
             /\ ret'.value \in DOMAIN orders_'
             /\ LET order == getOrder(orders_', ret'.value)
                IN /\ order.status = "OPEN"
                   /\ order.status # "PENDING"
                   /\ order.instrument = r.instrument
                   /\ order.side = r.side
                   /\ order.type = r.type
                   /\ order.price = r.price
                   /\ order.amount = r.amount
                   /\ order.filled_amount = 0
                   /\ order.last_update_timestamp = order.creation_timestamp ]_vars

\* C10, its case: placeOrder has just returned the id of a second order,
\* whose creation timestamp was read a tick after its id was made.
PlacedOrderIsOpenWitness ==
    /\ ret.op = "placeOrder"
    /\ ret.value \in DOMAIN orders_
    /\ Cardinality(DOMAIN orders_) = 2
    /\ orders_[ret.value].status = "OPEN"
    /\ OrderId(orders_[ret.value].creation_timestamp) # ret.value

\* C11 as stated: every placeOrder records one more order, under an id that
\* was not in the table, and leaves the orders that were there as they
\* were.
PlacementAddsOrder ==
    [][ \A r \in PlaceRequests, elapsed \in {0, 1} :
          PlaceOrder(r.instrument, r.side, r.price, r.amount, r.type, elapsed)
          => /\ ret'.value \notin DOMAIN orders_
             /\ Cardinality(DOMAIN orders_') = Cardinality(DOMAIN orders_) + 1
             /\ \A id \in DOMAIN orders_ : orders_'[id] = orders_[id] ]_vars

\* C12: cancelOrder(id) for an id of the table with a successful exchange
\* cancel returns true and leaves the order CANCELLED, whatever its status
\* and filled amount were, with a last-update timestamp not before its
\* creation timestamp; every other order stays as it was.
CancelSetsCancelled ==
    [][ \A order_id \in OrderIds :
          ( CancelOrder(order_id, TRUE) /\ order_id \in DOMAIN orders_ )
          => /\ ret'.value = TRUE
             /\ DOMAIN orders_' = DOMAIN orders_
             /\ orders_'[order_id].status = "CANCELLED"
             /\ orders_'[order_id].last_update_timestamp
                    >= orders_'[order_id].creation_timestamp
             /\ \A id \in DOMAIN orders_ \ {order_id} :
                   orders_'[id] = orders_[id] ]_vars

\* C12, its case: an order that had a fill has just been cancelled, later
\* than it was created.
CancelSetsCancelledWitness ==
    /\ ret = [op |-> "cancelOrder", value |-> TRUE]
    /\ \E id \in DOMAIN orders_ :
          /\ orders_[id].status = "CANCELLED"
          /\ orders_[id].filled_amount > 0
          /\ orders_[id].last_update_timestamp > orders_[id].creation_timestamp

\* C13: modifyOrder(id, p, a) for an id of the table with a successful
\* exchange edit leaves the order with price p and amount a and with the
\* status, filled amount, id, instrument, side, type and creation timestamp
\* it had, and leaves every other order and the position table as they
\* were.
ModifyChangesPriceAndAmount ==
    [][ \A order_id \in OrderIds, r \in ModifyRequests :
          ( /\ ModifyOrder(order_id, r.new_price, r.new_amount, TRUE)
            /\ order_id \in DOMAIN orders_ )
          => /\ DOMAIN orders_' = DOMAIN orders_
             /\ orders_'[order_id].price = r.new_price
             /\ orders_'[order_id].amount = r.new_amount
             /\ orders_'[order_id].status = orders_[order_id].status
             /\ orders_'[order_id].filled_amount = orders_[order_id].filled_amount
             /\ orders_'[order_id].order_id = orders_[order_id].order_id
             /\ orders_'[order_id].instrument = orders_[order_id].instrument
             /\ orders_'[order_id].side = orders_[order_id].side
             /\ orders_'[order_id].type = orders_[order_id].type
             /\ orders_'[order_id].creation_timestamp
                    = orders_[order_id].creation_timestamp
             /\ \A id \in DOMAIN orders_ \ {order_id} :
                   orders_'[id] = orders_[id]
             /\ positions_' = positions_ ]_vars

\* C13, its case: an order has just been given another price and amount,
\* later than it was created, while the position table holds a position.
ModifyChangesPriceAndAmountWitness ==
    /\ ret = [op |-> "modifyOrder", value |-> TRUE]
    /\ positions_ # << >>
    /\ \E id \in DOMAIN orders_ :
          /\ orders_[id].price = 51000
          /\ orders_[id].amount = 1
          /\ orders_[id].last_update_timestamp > orders_[id].creation_timestamp

\* The table a well-formed update of distinct instruments stands for.
PositionsOf(entries) ==
    [i \in {entries[k].instrument_name : k \in DOMAIN entries}
        |-> entries[CHOOSE k \in DOMAIN entries : entries[k].instrument_name = i].size]

\* Every element has a name and a number, and no instrument comes twice.
WellFormedPositions(p) ==
    /\ p.wellformed /\ p.is_array
    /\ \A k \in DOMAIN p.entries :
          /\ p.entries[k].instrument_name \in Instruments
          /\ p.entries[k].size \in 1..MaxAmount
    /\ \A k, l \in DOMAIN p.entries :
          p.entries[k].instrument_name = p.entries[l].instrument_name => k = l

MalformedPositionUpdateDropped ==
    [][ \A p \in PositionUpdates, undefined \in {"abort", "throw"} :
          ( OnPositionUpdate(p, undefined) /\ ~WellFormedPositions(p) )
          => /\ positions_' = positions_
             /\ ret'.op = "onPositionUpdate" ]_vars

\* The orders a returned list holds.
Listed(result) == {result[k] : k \in DOMAIN result}

\* No order of the list was created before one that follows it.
NewestFirst(result) ==
    \A j, k \in DOMAIN result :
        j < k => result[j].creation_timestamp >= result[k].creation_timestamp

\* C31: getAllOrders returns every order of the registry once, as it is in
\* the registry; getOpenOrders returns once each the orders whose status
\* is OPEN or PARTIALLY_FILLED and no order that is cancelled, filled or
\* rejected; both lists are ordered by creation timestamp, newest first;
\* and neither query changes the registry.
ListQueriesReturnSortedCopies ==
    [][ /\ GetAllOrders
           => /\ Listed(ret'.result) = {orders_[id] : id \in DOMAIN orders_}
              /\ Len(ret'.result) = Cardinality(DOMAIN orders_)
              /\ NewestFirst(ret'.result)
              /\ orders_' = orders_
        /\ GetOpenOrders
           => /\ \A id \in DOMAIN orders_ :
                    orders_[id] \in Listed(ret'.result)
                    <=> orders_[id].status \in {"OPEN", "PARTIALLY_FILLED"}
              /\ Listed(ret'.result) \subseteq {orders_[id] : id \in DOMAIN orders_}
              /\ Len(ret'.result) = Cardinality(Listed(ret'.result))
              /\ NewestFirst(ret'.result)
              /\ orders_' = orders_ ]_vars

\* C31, its case: of three orders one is cancelled and one partially
\* filled, and getOpenOrders has returned the other two, the newer first.
ListQueriesReturnSortedCopiesWitness ==
    /\ ret.op = "getOpenOrders"
    /\ Cardinality(DOMAIN orders_) = 3
    /\ Len(ret.result) = 2
    /\ ret.result[1].creation_timestamp > ret.result[2].creation_timestamp
    /\ \E k \in 1..2 : ret.result[k].status = "PARTIALLY_FILLED"
    /\ \E id \in DOMAIN orders_ : orders_[id].status = "CANCELLED"

\* C40: cancelOrder and modifyOrder return what the Exchange Link answered;
\* when it answered false, or the id is not in the registry, the registry
\* is left exactly as it was; and in every case the registry keeps its
\* ids (no order is created) and every order but the named one.
FailedOrUnknownChangesNothing ==
    [][ /\ \A order_id \in OrderIds, success \in BOOLEAN :
              CancelOrder(order_id, success)
              => /\ ret'.value = success
                 /\ ( ~success \/ order_id \notin DOMAIN orders_ ) => orders_' = orders_
                 /\ DOMAIN orders_' = DOMAIN orders_
                 /\ \A id \in DOMAIN orders_ \ {order_id} : orders_'[id] = orders_[id]
        /\ \A order_id \in OrderIds, r \in ModifyRequests, success \in BOOLEAN :
              ModifyOrder(order_id, r.new_price, r.new_amount, success)
              => /\ ret'.value = success
                 /\ ( ~success \/ order_id \notin DOMAIN orders_ ) => orders_' = orders_
                 /\ DOMAIN orders_' = DOMAIN orders_
                 /\ \A id \in DOMAIN orders_ \ {order_id} : orders_'[id] = orders_[id] ]_vars

\* C40, its case: two orders were placed and a modifyOrder that the
\* Exchange Link refused has returned false, both orders being as placed.
FailedOrUnknownChangesNothingWitness ==
    /\ ret.op = "modifyOrder"
    /\ ret.value = FALSE
    /\ Cardinality(DOMAIN orders_) = 2
    /\ \A id \in DOMAIN orders_ :
          /\ orders_[id].status = "OPEN"
          /\ orders_[id].last_update_timestamp = orders_[id].creation_timestamp
          /\ \E p \in PlaceRequests :
                orders_[id].price = p.price /\ orders_[id].amount = p.amount

\* ------------------------------------------------------------------------
\* MarketDataClient (the Order Book Cache)
\* ------------------------------------------------------------------------

\* The thread that calls the public methods, processMessage among them, and
\* the thread of the exchange link's io_context, which delivers the streamed
\* messages to processMessage.
CacheCallers == {"m1"}

LinkThread == "lk"

\* A second thread of the application that calls subscribe and unsubscribe.
ChurnCallers == CacheCallers \cup {"m2"}

CacheThreads == ChurnCallers \cup {LinkThread}

\* Orderbook orderbook; of a thread that has built none.
NoBook == [instrument |-> None, bids |-> << >>, asks |-> << >>, timestamp |-> 0]

\* One element of a "bids" or "asks" array: [price, size] ("pair"), an
\* element that is no array of two ("short"), or an array whose price is not
\* a number ("text").
Levels ==
    [shape : {"pair"}, price : {50000, 50001}, size : {1}]
    \cup
    {[shape |-> "short", price |-> 0, size |-> 0],
     [shape |-> "text", price |-> 0, size |-> 0]}

\* A "bids" or "asks" field: absent, or an array of elements.
SideFields ==
    {[present |-> FALSE, levels |-> << >>],
     [present |-> TRUE, levels |-> << >>],
     [present |-> TRUE, levels |-> <<[shape |-> "pair", price |-> 50000, size |-> 1]>>],
     [present |-> TRUE, levels |-> <<[shape |-> "short", price |-> 0, size |-> 0],
                                      [shape |-> "pair", price |-> 50000, size |-> 1]>>],
     [present |-> TRUE, levels |-> <<[shape |-> "text", price |-> 0, size |-> 0]>>]}

\* The loop over one side: elements that are arrays of at least two are
\* converted and appended, the others are passed over; a price or size that
\* is no number makes the conversion to double throw.
RECURSIVE SideThrows(_)
SideThrows(levels) ==
    IF levels = << >> THEN FALSE
    ELSE Head(levels).shape = "text" \/ SideThrows(Tail(levels))

RECURSIVE SideLevels(_)
SideLevels(levels) ==
    IF levels = << >> THEN << >>
    ELSE IF Head(levels).shape = "pair"
         THEN <<[price |-> Head(levels).price, size |-> Head(levels).size]>>
                  \o SideLevels(Tail(levels))
         ELSE SideLevels(Tail(levels))

\* Orderbook orderbook; built from the two fields at local time t.
BuiltOrderbook(instrument, bids, asks, t) ==
    [instrument |-> instrument,
     bids |-> IF bids.present THEN SideLevels(bids.levels) ELSE << >>,
     asks |-> IF asks.present THEN SideLevels(asks.levels) ELSE << >>,
     timestamp |-> t]

\* channel, cut at its dots.  kind "absent": there is no params.channel;
\* "number": it is not a string.
Channels ==
    {[kind |-> "absent", segments |-> << >>],
     [kind |-> "number", segments |-> << >>],
     [kind |-> "string", segments |-> <<"ticker", "BTC-PERPETUAL", "100ms">>],
     [kind |-> "string", segments |-> <<"book", "BTC-PERPETUAL", "100ms">>],
     [kind |-> "string", segments |-> <<"book", "ETH-PERPETUAL">>]}

\* channel.find("book.") == 0
IsBookChannel(channel) ==
    /\ channel.kind = "string"
    /\ Len(channel.segments) >= 2
    /\ channel.segments[1] = "book"

\* channel.substr(5), up to its first dot
InstrumentOfChannel(channel) == channel.segments[2]

\* A streamed message as processMessage decodes it.  data: params.data is
\* there.  Messages that differ only in fields processMessage never reads
\* are not told apart.
RawMessages ==
    {[wellformed |-> FALSE, method |-> Absent,
      channel |-> [kind |-> "absent", segments |-> << >>], data |-> FALSE,
      bids |-> [present |-> FALSE, levels |-> << >>],
      asks |-> [present |-> FALSE, levels |-> << >>]]}
    \cup
    [wellformed : {TRUE}, method : {Absent, "heartbeat"},
     channel : {[kind |-> "string", segments |-> <<"book", "BTC-PERPETUAL", "100ms">>]},
     data : {TRUE},
     bids : {[present |-> TRUE, levels |-> <<[shape |-> "pair", price |-> 50000, size |-> 1]>>]},
     asks : {[present |-> TRUE, levels |-> << >>]}]
    \cup
    [wellformed : {TRUE}, method : {"subscription"},
     channel : {c \in Channels : ~IsBookChannel(c)},
     data : {TRUE},
     bids : {[present |-> TRUE, levels |-> <<[shape |-> "pair", price |-> 50000, size |-> 1]>>]},
     asks : {[present |-> TRUE, levels |-> << >>]}]
    \cup
    [wellformed : {TRUE}, method : {"subscription"},
     channel : {c \in Channels : IsBookChannel(c)},
     data : {FALSE},
     bids : {[present |-> FALSE, levels |-> << >>]},
     asks : {[present |-> FALSE, levels |-> << >>]}]
    \cup
    [wellformed : {TRUE}, method : {"subscription"},
     channel : {[kind |-> "string", segments |-> <<"book", "BTC-PERPETUAL", "100ms">>]},
     data : {TRUE},
     bids : SideFields,
     asks : {[present |-> FALSE, levels |-> << >>],
             [present |-> TRUE, levels |-> <<[shape |-> "pair", price |-> 50001, size |-> 1]>>]}]
    \cup
    [wellformed : {TRUE}, method : {"subscription"},
     channel : {[kind |-> "string", segments |-> <<"book", "ETH-PERPETUAL">>]},
     data : {TRUE},
     bids : {[present |-> TRUE, levels |-> <<[shape |-> "pair", price |-> 50000, size |-> 1]>>]},
     asks : {[present |-> FALSE, levels |-> << >>]}]

\* processMessage reaches the store: the text parses, it is a subscription
\* message with a channel that starts with "book.", and no conversion
\* throws.
MessageStores(m) ==
    /\ m.wellformed
    /\ m.method = "subscription"
    /\ IsBookChannel(m.channel)
    /\ ~( m.data /\ m.bids.present /\ SideThrows(m.bids.levels) )
    /\ ~( m.data /\ m.asks.present /\ SideThrows(m.asks.levels) )

\* A faulty processMessage that appends the message's levels to the cached
\* ones.
MessageOrderbookMerged(m, t) ==
    LET i == InstrumentOfChannel(m.channel)
        cached == IF i \in DOMAIN orderbooks_ THEN orderbooks_[i] ELSE NoBook
    IN [instrument |-> i,
        bids |-> cached.bids \o (IF m.data /\ m.bids.present
                                 THEN SideLevels(m.bids.levels) ELSE << >>),
        asks |-> cached.asks \o (IF m.data /\ m.asks.present
                                 THEN SideLevels(m.asks.levels) ELSE << >>),
        timestamp |-> t]

\* The book processMessage stores: data["params"]["data"] is null when the
\* payload has none, and a null contains neither "bids" nor "asks".
MessageOrderbook(m, t) ==
    BuiltOrderbook(InstrumentOfChannel(m.channel),
                   IF m.data THEN m.bids ELSE [present |-> FALSE, levels |-> << >>],
                   IF m.data THEN m.asks ELSE [present |-> FALSE, levels |-> << >>],
                   t)

\* The response of ApiClient::getOrderbook as fetchInitialOrderbook decodes
\* it.  result "text" is the response ApiClient::makeRequest returns,
\* {"result": "success"}: a string, which contains neither "bids" nor
\* "asks".  The other responses are those of an exchange.
FetchResponses ==
    {[wellformed |-> FALSE, result |-> Absent,
      bids |-> [present |-> FALSE, levels |-> << >>],
      asks |-> [present |-> FALSE, levels |-> << >>]],
     [wellformed |-> TRUE, result |-> Absent,
      bids |-> [present |-> FALSE, levels |-> << >>],
      asks |-> [present |-> FALSE, levels |-> << >>]],
     [wellformed |-> TRUE, result |-> "text",
      bids |-> [present |-> FALSE, levels |-> << >>],
      asks |-> [present |-> FALSE, levels |-> << >>]],
     [wellformed |-> TRUE, result |-> "object",
      bids |-> [present |-> TRUE, levels |-> <<[shape |-> "pair", price |-> 50000, size |-> 1]>>],
      asks |-> [present |-> TRUE, levels |-> <<[shape |-> "pair", price |-> 50001, size |-> 1]>>]],
     [wellformed |-> TRUE, result |-> "object",
      bids |-> [present |-> TRUE, levels |-> <<[shape |-> "text", price |-> 0, size |-> 0]>>],
      asks |-> [present |-> FALSE, levels |-> << >>]]}

\* fetchInitialOrderbook reaches the store.
ResponseStores(r) ==
    /\ r.wellformed
    /\ r.result # Absent
    /\ ~( r.bids.present /\ SideThrows(r.bids.levels) )
    /\ ~( r.asks.present /\ SideThrows(r.asks.levels) )

\* std::find(subscriptions_.begin(), subscriptions_.end(), instrument)
Subscribed(subscriptions, i) ==
    \E k \in DOMAIN subscriptions : subscriptions[k] = i

\* A faulty erase that looks at the first element only.
EraseFirstAtHead(subscriptions, i) ==
    IF subscriptions # << >> /\ Head(subscriptions) = i
    THEN Tail(subscriptions) ELSE subscriptions

\* subscriptions_.erase(it) for the first position that holds i
RECURSIVE EraseFirst(_, _)
EraseFirst(subscriptions, i) ==
    IF subscriptions = << >> THEN << >>
    ELSE IF Head(subscriptions) = i THEN Tail(subscriptions)
    ELSE <<Head(subscriptions)>> \o EraseFirst(Tail(subscriptions), i)

\* getOrderbook: the cached book, or an empty book with the instrument's
\* name (its timestamp is not initialised by the code and is left out).
getOrderbook(orderbooks, i) ==
    IF i \in DOMAIN orderbooks THEN orderbooks[i]
    ELSE [instrument |-> i, bids |-> << >>, asks |-> << >>]

\* A thread outside every method of the MarketDataClient.
CacheIdle == [pc |-> "idle", op |-> None, i |-> None, needs |-> FALSE,
              book |-> NoBook, instruments |-> << >>, log |-> << >>]

\* A thread starts method op, with argument i, and stands at label pc.
CacheBegin(pc, op, i) == [CacheIdle EXCEPT !.pc = pc, !.op = op, !.i = i]

\* What a call has done: a call of the ApiClient (what is the method's
\* name), a "store" or an "erase" in orderbooks_, or a "callback".
Did(what, i) == [what |-> what, instrument |-> i]

\* A faulty loop that stops after the first instrument.
DidForFirst(what, instruments) ==
    IF instruments = << >> THEN << >> ELSE <<Did(what, Head(instruments))>>

\* api_client_->subscribeToOrderbook / unsubscribeFromOrderbook for every
\* instrument of the copied vector, in its order.
RECURSIVE DidForAll(_, _)
DidForAll(what, instruments) ==
    IF instruments = << >> THEN << >>
    ELSE <<Did(what, Head(instruments))>> \o DidForAll(what, Tail(instruments))

\* A faulty locking that calls the callback inside the block that stores
\* the book.
LocksHeldAcrossCallback(op, pc) ==
    IF pc \in {"start_copy", "stop_copy"}
       \/ ( pc = "entry" /\ op \in {"subscribe", "unsubscribe"} )
    THEN {"subscriptions_mutex_"}
    ELSE IF pc \in {"fetch_store", "unsub_erase", "notify", "fetch_notify"}
            \/ ( pc = "entry" /\ op \in {"processMessage", "getOrderbook"} )
    THEN {"orderbooks_mutex_"}
    ELSE {}

\* The mutexes a thread holds while it takes the step at label pc of method
\* op ("entry" is the method's first step): the std::lock_guard objects
\* whose scope the statements of the step lie in.
LocksHeld(op, pc) ==
    IF pc \in {"start_copy", "stop_copy"}
       \/ ( pc = "entry" /\ op \in {"subscribe", "unsubscribe"} )
    THEN {"subscriptions_mutex_"}
    ELSE IF pc \in {"fetch_store", "unsub_erase"}
            \/ ( pc = "entry" /\ op \in {"processMessage", "getOrderbook"} )
    THEN {"orderbooks_mutex_"}
    ELSE {}

\* A step of thread t of the MarketDataClient: t moves to rec; the broker,
\* the OrderManager and the clock stay as they are.
CacheAdvance(t, rec) ==
    /\ mt' = [mt EXCEPT ![t] = rec]
    /\ UNCHANGED <<brokerVars, orderVars>>

CacheInit ==
    /\ running_ = FALSE
    /\ subscriptions_ = << >>
    /\ orderbooks_ = << >>
    /\ orderbook_callback_ = FALSE
    /\ mt = [t \in CacheThreads |-> CacheIdle]

\* setOrderbookCallback
SetOrderbookCallback(t) ==
    /\ mt[t].pc = "idle"
    /\ ~orderbook_callback_
    /\ orderbook_callback_' = TRUE
    /\ CacheAdvance(t, CacheBegin("done", "setOrderbookCallback", None))
    /\ UNCHANGED <<running_, subscriptions_, orderbooks_>>

\* start: if (running_) return;
StartCheck(t) ==
    /\ mt[t].pc = "idle"
    /\ CacheAdvance(t, CacheBegin(IF running_ THEN "done" ELSE "start_set", "start", None))
    /\ UNCHANGED <<running_, subscriptions_, orderbooks_, orderbook_callback_>>

\* start: running_ = true;
StartSet(t) ==
    /\ mt[t].pc = "start_set"
    /\ running_' = TRUE
    /\ CacheAdvance(t, [mt[t] EXCEPT !.pc = "start_connect"])
    /\ UNCHANGED <<subscriptions_, orderbooks_, orderbook_callback_>>

\* start: api_client_->connectWebSocket(...)
StartConnect(t) ==
    /\ mt[t].pc = "start_connect"
    /\ CacheAdvance(t, [mt[t] EXCEPT !.pc = "start_copy",
                                    !.log = Append(@, Did("connectWebSocket", None))])
    /\ UNCHANGED <<running_, subscriptions_, orderbooks_, orderbook_callback_>>

\* start: instruments = subscriptions_ under subscriptions_mutex_
StartCopy(t) ==
    /\ mt[t].pc = "start_copy"
    /\ CacheAdvance(t, [mt[t] EXCEPT !.pc = "start_stream",
                                    !.instruments = subscriptions_])
    /\ UNCHANGED <<running_, subscriptions_, orderbooks_, orderbook_callback_>>

\* start: the loop of subscribeToOrderbook
StartStream(t) ==
    /\ mt[t].pc = "start_stream"
    /\ CacheAdvance(t, [mt[t] EXCEPT !.pc = "done",
                           !.log = @ \o DidForAll("subscribeToOrderbook", mt[t].instruments)])
    /\ UNCHANGED <<running_, subscriptions_, orderbooks_, orderbook_callback_>>

\* stop: if (!running_) return;
StopCheck(t) ==
    /\ mt[t].pc = "idle"
    /\ CacheAdvance(t, CacheBegin(IF running_ THEN "stop_set" ELSE "done", "stop", None))
    /\ UNCHANGED <<running_, subscriptions_, orderbooks_, orderbook_callback_>>

\* stop: running_ = false;
StopSet(t) ==
    /\ mt[t].pc = "stop_set"
    /\ running_' = FALSE
    /\ CacheAdvance(t, [mt[t] EXCEPT !.pc = "stop_copy"])
    /\ UNCHANGED <<subscriptions_, orderbooks_, orderbook_callback_>>

\* stop: instruments = subscriptions_ under subscriptions_mutex_
StopCopy(t) ==
    /\ mt[t].pc = "stop_copy"
    /\ CacheAdvance(t, [mt[t] EXCEPT !.pc = "stop_stream",
                                    !.instruments = subscriptions_])
    /\ UNCHANGED <<running_, subscriptions_, orderbooks_, orderbook_callback_>>

\* stop: the loop of unsubscribeFromOrderbook, then closeWebSocket
StopStream(t) ==
    /\ mt[t].pc = "stop_stream"
    /\ CacheAdvance(t, [mt[t] EXCEPT !.pc = "done",
                           !.log = (@ \o DidForAll("unsubscribeFromOrderbook", mt[t].instruments))
                                       \o <<Did("closeWebSocket", None)>>])
    /\ UNCHANGED <<running_, subscriptions_, orderbooks_, orderbook_callback_>>

\* subscribe: the block under subscriptions_mutex_
SubscribeLocked(t, i) ==
    /\ mt[t].pc = "idle"
    /\ subscriptions_' = IF Subscribed(subscriptions_, i) THEN subscriptions_
                         ELSE Append(subscriptions_, i)
    /\ CacheAdvance(t, [CacheBegin("sub_check", "subscribe", i) EXCEPT
                           !.needs = ~Subscribed(subscriptions_, i)])
    /\ UNCHANGED <<running_, orderbooks_, orderbook_callback_>>

\* A faulty subscribe that issues the streaming subscribe without the fetch.
SubscribeCheckSkipsFetch(t) ==
    /\ mt[t].pc = "sub_check"
    /\ CacheAdvance(t, [mt[t] EXCEPT
                           !.pc = IF mt[t].needs /\ running_ THEN "sub_stream" ELSE "done"])
    /\ UNCHANGED <<running_, subscriptions_, orderbooks_, orderbook_callback_>>

\* subscribe: if (needs_subscribe && running_)
SubscribeCheck(t) ==
    /\ mt[t].pc = "sub_check"
    /\ CacheAdvance(t, [mt[t] EXCEPT
                           !.pc = IF mt[t].needs /\ running_ THEN "fetch" ELSE "done"])
    /\ UNCHANGED <<running_, subscriptions_, orderbooks_, orderbook_callback_>>

\* fetchInitialOrderbook: the request, and the book built from response r
FetchInitialOrderbook(t, r) ==
    /\ mt[t].pc = "fetch"
    /\ CacheAdvance(t, [mt[t] EXCEPT
                           !.pc = IF ResponseStores(r) THEN "fetch_store" ELSE "sub_stream",
                           !.book = IF ResponseStores(r)
                                    THEN BuiltOrderbook(mt[t].i, r.bids, r.asks, now)
                                    ELSE NoBook,
                           !.log = Append(@, Did("getOrderbook", mt[t].i))])
    /\ UNCHANGED <<running_, subscriptions_, orderbooks_, orderbook_callback_>>

\* fetchInitialOrderbook: orderbooks_[instrument] = orderbook under
\* orderbooks_mutex_
FetchStore(t) ==
    /\ mt[t].pc = "fetch_store"
    /\ orderbooks_' = MapPut(orderbooks_, mt[t].i, mt[t].book)
    /\ CacheAdvance(t, [mt[t] EXCEPT !.pc = "fetch_notify",
                                    !.log = Append(@, Did("store", mt[t].i))])
    /\ UNCHANGED <<running_, subscriptions_, orderbook_callback_>>

\* fetchInitialOrderbook: if (orderbook_callback_) orderbook_callback_(orderbook)
FetchNotify(t) ==
    /\ mt[t].pc = "fetch_notify"
    /\ CacheAdvance(t, [mt[t] EXCEPT !.pc = "sub_stream",
                           !.log = IF orderbook_callback_
                                   THEN Append(@, Did("callback", mt[t].i)) ELSE @])
    /\ UNCHANGED <<running_, subscriptions_, orderbooks_, orderbook_callback_>>

\* subscribe: api_client_->subscribeToOrderbook(instrument)
SubscribeStream(t) ==
    /\ mt[t].pc = "sub_stream"
    /\ CacheAdvance(t, [mt[t] EXCEPT !.pc = "done",
                           !.log = Append(@, Did("subscribeToOrderbook", mt[t].i))])
    /\ UNCHANGED <<running_, subscriptions_, orderbooks_, orderbook_callback_>>

\* unsubscribe: the block under subscriptions_mutex_
UnsubscribeLocked(t, i) ==
    /\ mt[t].pc = "idle"
    /\ subscriptions_' = EraseFirst(subscriptions_, i)
    /\ CacheAdvance(t, [CacheBegin("unsub_check", "unsubscribe", i) EXCEPT
                           !.needs = Subscribed(subscriptions_, i)])
    /\ UNCHANGED <<running_, orderbooks_, orderbook_callback_>>

\* unsubscribe: if (needs_unsubscribe && running_)
UnsubscribeCheck(t) ==
    /\ mt[t].pc = "unsub_check"
    /\ CacheAdvance(t, [mt[t] EXCEPT
                           !.pc = IF mt[t].needs /\ running_ THEN "unsub_stream" ELSE "done"])
    /\ UNCHANGED <<running_, subscriptions_, orderbooks_, orderbook_callback_>>

\* unsubscribe: api_client_->unsubscribeFromOrderbook(instrument)
UnsubscribeStream(t) ==
    /\ mt[t].pc = "unsub_stream"
    /\ CacheAdvance(t, [mt[t] EXCEPT !.pc = "unsub_erase",
                           !.log = Append(@, Did("unsubscribeFromOrderbook", mt[t].i))])
    /\ UNCHANGED <<running_, subscriptions_, orderbooks_, orderbook_callback_>>

\* unsubscribe: orderbooks_.erase(instrument) under orderbooks_mutex_
UnsubscribeErase(t) ==
    /\ mt[t].pc = "unsub_erase"
    /\ orderbooks_' = MapErase(orderbooks_, mt[t].i)
    /\ CacheAdvance(t, [mt[t] EXCEPT !.pc = "done",
                                    !.log = Append(@, Did("erase", mt[t].i))])
    /\ UNCHANGED <<running_, subscriptions_, orderbook_callback_>>

\* processMessage, up to the store under orderbooks_mutex_; a message that
\* does not reach the store ends in the if chain or in the catch block.
ProcessMessage(t, m) ==
    /\ mt[t].pc = "idle"
    /\ IF MessageStores(m)
       THEN LET orderbook == MessageOrderbook(m, now)
            IN /\ orderbooks_' = MapPut(orderbooks_, orderbook.instrument, orderbook)
               /\ CacheAdvance(t, [CacheBegin("notify", "processMessage",
                                              orderbook.instrument) EXCEPT
                                      !.book = orderbook,
                                      !.log = <<Did("store", orderbook.instrument)>>])
       ELSE /\ orderbooks_' = orderbooks_
            /\ CacheAdvance(t, CacheBegin("done", "processMessage", None))
    /\ UNCHANGED <<running_, subscriptions_, orderbook_callback_>>

\* processMessage: if (orderbook_callback_) orderbook_callback_(orderbook)
ProcessNotify(t) ==
    /\ mt[t].pc = "notify"
    /\ CacheAdvance(t, [mt[t] EXCEPT !.pc = "done",
                           !.log = IF orderbook_callback_
                                   THEN Append(@, Did("callback", mt[t].i)) ELSE @])
    /\ UNCHANGED <<running_, subscriptions_, orderbooks_, orderbook_callback_>>

\* A faulty lookup that reads with operator[], which creates the entry.
GetOrderbookInserts(t, i) ==
    /\ mt[t].pc = "idle"
    /\ orderbooks_' = IF i \in DOMAIN orderbooks_ THEN orderbooks_
                      ELSE MapPut(orderbooks_, i, [NoBook EXCEPT !.instrument = i])
    /\ CacheAdvance(t, [CacheBegin("done", "getOrderbook", i) EXCEPT
                           !.book = getOrderbook(orderbooks_, i)])
    /\ UNCHANGED <<running_, subscriptions_, orderbook_callback_>>

\* getOrderbook: one block under orderbooks_mutex_; orderbooks_ is only read
\* (find and at on a const map) and a copy is returned.
GetOrderbook(t, i) ==
    /\ mt[t].pc = "idle"
    /\ CacheAdvance(t, [CacheBegin("done", "getOrderbook", i) EXCEPT
                           !.book = getOrderbook(orderbooks_, i)])
    /\ UNCHANGED <<running_, subscriptions_, orderbooks_, orderbook_callback_>>

\* The method returns.
CacheReturn(t) ==
    /\ mt[t].pc = "done"
    /\ CacheAdvance(t, CacheIdle)
    /\ UNCHANGED <<running_, subscriptions_, orderbooks_, orderbook_callback_>>

CacheNext ==
    \/ Tick
    \/ \E t \in CacheCallers :
          \/ SetOrderbookCallback(t)
          \/ StartCheck(t) \/ StartSet(t) \/ StartConnect(t) \/ StartCopy(t)
          \/ StartStream(t)
          \/ StopCheck(t) \/ StopSet(t) \/ StopCopy(t) \/ StopStream(t)
          \/ \E i \in Instruments : SubscribeLocked(t, i)
          \/ SubscribeCheck(t)
          \/ \E r \in FetchResponses : FetchInitialOrderbook(t, r)
          \/ FetchStore(t) \/ FetchNotify(t) \/ SubscribeStream(t)
          \/ \E i \in Instruments : UnsubscribeLocked(t, i)
          \/ UnsubscribeCheck(t) \/ UnsubscribeStream(t) \/ UnsubscribeErase(t)
          \/ \E m \in RawMessages : ProcessMessage(t, m)
          \/ ProcessNotify(t)
          \/ CacheReturn(t)

\* The messages the link delivers while the application starts and stops
\* the cache: book updates with levels, for either instrument.
LinkMessages ==
    {m \in RawMessages :
        /\ MessageStores(m)
        /\ m.data
        /\ m.bids.present
        /\ m.bids.levels # << >>
        /\ \A k \in DOMAIN m.bids.levels : m.bids.levels[k].shape = "pair"}

\* The application starts and stops the cache on its thread while the
\* thread of the link (io_context_->run(), detached by connectWebSocket
\* and not joined by closeWebSocket) calls processMessage.
LinkNext ==
    \/ Tick
    \/ \E t \in CacheCallers :
          \/ SetOrderbookCallback(t)
          \/ StartCheck(t) \/ StartSet(t) \/ StartConnect(t) \/ StartCopy(t)
          \/ StartStream(t)
          \/ StopCheck(t) \/ StopSet(t) \/ StopCopy(t) \/ StopStream(t)
    \/ \E m \in LinkMessages : ProcessMessage(LinkThread, m)
    \/ ProcessNotify(LinkThread)
    \/ \E t \in CacheThreads : CacheReturn(t)

\* ------------------------------------------------------------------------
\* The point lookups of the three components, each on a component that
\* other calls have filled
\* ------------------------------------------------------------------------

\* The book updates that fill the cache: those for one instrument, so that
\* the other has no book.
LookupMessages ==
    {m \in LinkMessages : InstrumentOfChannel(m.channel) = "ETH-PERPETUAL"}

\* One application thread calls the three components: it places orders,
\* has book updates ingested, subscribes the first connection, and looks
\* up orders, books and subscriptions, known and unknown.
LookupNext ==
    \/ \E r \in PlaceRequests :
          PlaceOrder(r.instrument, r.side, r.price, r.amount, r.type, 1)
    \/ \E order_id \in OrderIds : GetOrder(order_id)
    \/ \E t \in CacheCallers :
          \/ \E m \in LookupMessages : ProcessMessage(t, m)
          \/ ProcessNotify(t)
          \/ \E i \in Instruments : GetOrderbook(t, i)
          \/ CacheReturn(t)
    \/ \E t \in Callers :
          \/ \E i \in Instruments : AddSubscriptionLocked(t, ConnectionOrder[1], i)
          \/ \E c \in Connections : GetSubscriptions(t, c)
          \/ AddSubscriptionSend(t)
          \/ Return(t)

\* The responses the snapshot fetch is given where the locks are looked at:
\* the one ApiClient::makeRequest returns, a book, and one that throws.
LockResponses ==
    {r \in FetchResponses : r.wellformed /\ r.result # Absent}

\* Every method of the MarketDataClient, called by the application, against
\* the link's thread delivering book updates.
LockNext ==
    \/ \E t \in CacheCallers :
          \/ SetOrderbookCallback(t)
          \/ StartCheck(t) \/ StartSet(t) \/ StartConnect(t) \/ StartCopy(t)
          \/ StartStream(t)
          \/ StopCheck(t) \/ StopSet(t) \/ StopCopy(t) \/ StopStream(t)
          \/ \E i \in Instruments : SubscribeLocked(t, i)
          \/ SubscribeCheck(t)
          \/ \E r \in LockResponses : FetchInitialOrderbook(t, r)
          \/ FetchStore(t) \/ FetchNotify(t) \/ SubscribeStream(t)
          \/ \E i \in Instruments : UnsubscribeLocked(t, i)
          \/ UnsubscribeCheck(t) \/ UnsubscribeStream(t) \/ UnsubscribeErase(t)
          \/ \E i \in Instruments : GetOrderbook(t, i)
    \/ \E m \in LookupMessages : ProcessMessage(LinkThread, m)
    \/ ProcessNotify(LinkThread)
    \/ \E t \in CacheThreads : CacheReturn(t)

\* The cache after setOrderbookCallback and start: running, nothing
\* subscribed, no book.
ChurnInit ==
    /\ running_ = TRUE
    /\ subscriptions_ = << >>
    /\ orderbooks_ = << >>
    /\ orderbook_callback_ = TRUE
    /\ mt = [t \in CacheThreads |-> CacheIdle]

\* Two threads of the application call subscribe and unsubscribe on the
\* running cache; the snapshot fetch is answered as ApiClient::makeRequest
\* answers it.
ChurnNext ==
    \E t \in ChurnCallers :
        \/ \E i \in Instruments : SubscribeLocked(t, i)
        \/ SubscribeCheck(t)
        \/ \E r \in {x \in FetchResponses : x.result = "text"} :
              FetchInitialOrderbook(t, r)
        \/ FetchStore(t) \/ FetchNotify(t) \/ SubscribeStream(t)
        \/ \E i \in Instruments : UnsubscribeLocked(t, i)
        \/ UnsubscribeCheck(t) \/ UnsubscribeStream(t) \/ UnsubscribeErase(t)
        \/ CacheReturn(t)

\* Two threads of the application call start on the stopped cache, the
\* first also subscribes.
StartTwiceNext ==
    \/ \E t \in ChurnCallers :
          \/ StartCheck(t) \/ StartSet(t) \/ StartConnect(t) \/ StartCopy(t)
          \/ StartStream(t)
          \/ CacheReturn(t)
    \/ \E t \in CacheCallers :
          \/ \E i \in Instruments : SubscribeLocked(t, i)
          \/ SubscribeCheck(t)
          \/ \E r \in {x \in FetchResponses : x.result = "text"} :
                FetchInitialOrderbook(t, r)
          \/ FetchStore(t) \/ FetchNotify(t) \/ SubscribeStream(t)

\* ------------------------------------------------------------------------
\* MarketDataClient: properties
\* ------------------------------------------------------------------------

\* The instruments of the subscription vector.
SubscriptionSet(subscriptions) == {subscriptions[k] : k \in DOMAIN subscriptions}

\* C16: subscribe(i) leaves i in the subscription set and unsubscribe(i)
\* leaves it out, each without touching the other instruments, so that the
\* set is always the instruments whose last call was subscribe; no
\* instrument is in the vector twice; a subscribe of a subscribed and an
\* unsubscribe of an unsubscribed instrument leave the vector as it was and
\* return without any call of the ApiClient, whether the cache runs or not.
SubscriptionSetFollowsCalls ==
    [][ /\ \A t \in CacheThreads, i \in Instruments :
              /\ SubscribeLocked(t, i)
                 => /\ SubscriptionSet(subscriptions_')
                          = SubscriptionSet(subscriptions_) \cup {i}
                    /\ i \in SubscriptionSet(subscriptions_)
                          => subscriptions_' = subscriptions_
              /\ UnsubscribeLocked(t, i)
                 => /\ SubscriptionSet(subscriptions_')
                          = SubscriptionSet(subscriptions_) \ {i}
                    /\ i \notin SubscriptionSet(subscriptions_)
                          => subscriptions_' = subscriptions_
        /\ \A k, l \in DOMAIN subscriptions_' :
              subscriptions_'[k] = subscriptions_'[l] => k = l
        /\ \A t \in CacheThreads :
              ( mt'[t].op \in {"subscribe", "unsubscribe"} /\ ~mt'[t].needs )
              => /\ mt'[t].log = << >>
                 /\ mt'[t].pc \in {"sub_check", "unsub_check", "done"}
                 /\ orderbooks_' = orderbooks_ ]_vars

\* C16, its case: on a running cache with two subscriptions, a second
\* subscribe of one of them has returned and has called nothing.
SubscriptionSetFollowsCallsWitness ==
    \E t \in CacheThreads :
        /\ mt[t].op = "subscribe"
        /\ mt[t].pc = "done"
        /\ ~mt[t].needs
        /\ running_
        /\ Len(subscriptions_) = 2

\* What C17 calls malformed or unrecognized.
Malformed(m) ==
    \/ ~m.wellformed
    \/ m.method # "subscription"
    \/ ~IsBookChannel(m.channel)
    \/ ~m.data
    \/ ~m.bids.present
    \/ ~m.asks.present
    \/ \E k \in DOMAIN m.bids.levels : m.bids.levels[k].shape = "text"
    \/ \E k \in DOMAIN m.asks.levels : m.asks.levels[k].shape = "text"

\* C17 as stated: processMessage with a malformed or unrecognized message
\* returns, leaves every cached book as it was and invokes no callback.
MalformedMessageDropped ==
    [][ \A t \in CacheThreads, m \in RawMessages :
          ( ProcessMessage(t, m) /\ Malformed(m) )
          => /\ orderbooks_' = orderbooks_
             /\ mt'[t].pc = "done"
             /\ mt'[t].log = << >> ]_vars

\* The cached book of m's instrument is the one an earlier processMessage of
\* m has stored.
IngestedBefore(m) ==
    /\ MessageStores(m)
    /\ InstrumentOfChannel(m.channel) \in DOMAIN orderbooks_
    /\ \E t0 \in 0..now :
          orderbooks_[InstrumentOfChannel(m.channel)] = MessageOrderbook(m, t0)

\* C18 as stated: processMessage of a message whose book is the cached one
\* leaves orderbooks_ as it was.
SecondIngestChangesNothing ==
    [][ \A t \in CacheThreads, m \in RawMessages :
          ( ProcessMessage(t, m) /\ IngestedBefore(m) )
          => orderbooks_' = orderbooks_ ]_vars

\* C18, amended: processMessage of a message whose book is the cached one
\* leaves every cached book as it was but for the timestamp of that book,
\* which becomes the local time of the second ingestion.
SecondIngestChangesTimestampOnly ==
    [][ \A t \in CacheThreads, m \in RawMessages :
          ( ProcessMessage(t, m) /\ IngestedBefore(m) )
          => LET i == InstrumentOfChannel(m.channel)
             IN /\ DOMAIN orderbooks_' = DOMAIN orderbooks_
                /\ orderbooks_'[i].bids = orderbooks_[i].bids
                /\ orderbooks_'[i].asks = orderbooks_[i].asks
                /\ orderbooks_'[i].instrument = orderbooks_[i].instrument
                /\ orderbooks_'[i].timestamp = now
                /\ orderbooks_'[i].timestamp >= orderbooks_[i].timestamp
                /\ \A j \in DOMAIN orderbooks_ \ {i} :
                      orderbooks_'[j] = orderbooks_[j] ]_vars

\* C18, its case: a book with levels on both sides has been stored, with a
\* timestamp after the start of the run, next to the book of the other
\* instrument.
SecondIngestWitness ==
    \E t \in CacheThreads :
        /\ mt[t].op = "processMessage"
        /\ mt[t].pc = "notify"
        /\ mt[t].book.bids # << >> /\ mt[t].book.asks # << >>
        /\ mt[t].book.timestamp > 0
        /\ Cardinality(DOMAIN orderbooks_) = 2

\* The levels of a side all of whose elements are [price, size].
PairsOf(side) ==
    IF side.present
    THEN [k \in DOMAIN side.levels |->
             [price |-> side.levels[k].price, size |-> side.levels[k].size]]
    ELSE << >>

OnlyPairs(side) == \A k \in DOMAIN side.levels : side.levels[k].shape = "pair"

\* C19: processMessage of a book message for instrument i leaves i's cached
\* bids and asks equal to the message's, whatever was cached, and leaves the
\* cached book of every other instrument and the subscription vector as
\* they were.
IngestReplacesBook ==
    [][ \A t \in CacheThreads, m \in RawMessages :
          ( /\ ProcessMessage(t, m)
            /\ MessageStores(m) /\ m.data
            /\ OnlyPairs(m.bids) /\ OnlyPairs(m.asks) )
          => LET i == InstrumentOfChannel(m.channel)
             IN /\ DOMAIN orderbooks_' = DOMAIN orderbooks_ \cup {i}
                /\ orderbooks_'[i].bids = PairsOf(m.bids)
                /\ orderbooks_'[i].asks = PairsOf(m.asks)
                /\ orderbooks_'[i].instrument = i
                /\ \A j \in DOMAIN orderbooks_ \ {i} :
                      orderbooks_'[j] = orderbooks_[j]
                /\ subscriptions_' = subscriptions_ ]_vars

\* C19, its case: a message without bids has just replaced a book for
\* BTC-PERPETUAL while ETH-PERPETUAL has a cached book with bids and
\* instruments are subscribed.
IngestReplacesBookWitness ==
    \E t \in CacheThreads :
        /\ mt[t].op = "processMessage"
        /\ mt[t].pc = "notify"
        /\ mt[t].i = "BTC-PERPETUAL"
        /\ DOMAIN orderbooks_ = Instruments
        /\ orderbooks_["BTC-PERPETUAL"].bids = << >>
        /\ orderbooks_["BTC-PERPETUAL"].asks # << >>
        /\ orderbooks_["ETH-PERPETUAL"].bids # << >>
        /\ orderbooks_["ETH-PERPETUAL"].timestamp < orderbooks_["BTC-PERPETUAL"].timestamp
        /\ subscriptions_ # << >>

\* C20: in a call of subscribe(i), the streaming subscribe for i comes
\* after the snapshot request for i, and after the store and the callback
\* of the snapshot's book when the response gave one; a call that has made
\* calls began with the request and ended with the streaming subscribe; a
\* new instrument on a running cache leads to the request, and on a cache
\* that is not running the call returns having called nothing.
SubscribeFetchesFirst ==
    [][ \A t \in CacheThreads :
          /\ mt'[t].op = "subscribe"
             => LET log == mt'[t].log
                    i == mt'[t].i
                IN /\ \A k \in DOMAIN log :
                         log[k].what = "subscribeToOrderbook"
                         => /\ log[k].instrument = i
                            /\ \E j \in 1..(k - 1) : log[j] = Did("getOrderbook", i)
                            /\ \A j \in DOMAIN log :
                                  log[j].what \in {"getOrderbook", "store", "callback"}
                                  => j < k
                            /\ mt'[t].book # NoBook
                               => /\ \E j \in 1..(k - 1) : log[j] = Did("store", i)
                                  /\ i \in DOMAIN orderbooks_'
                   /\ \A k \in DOMAIN log :
                         log[k].what = "store"
                         => \E j \in 1..(k - 1) : log[j] = Did("getOrderbook", i)
                   /\ ( mt'[t].pc = "done" /\ log # << >> )
                      => /\ log[1] = Did("getOrderbook", i)
                         /\ log[Len(log)] = Did("subscribeToOrderbook", i)
          /\ ( mt[t].pc = "sub_check" /\ mt'[t].pc # "sub_check" )
             => IF mt[t].needs /\ running_
                THEN mt'[t].pc = "fetch"
                ELSE mt'[t].pc = "done" /\ mt'[t].log = << >> ]_vars

\* C20, its case: a subscribe on a running cache has returned after the
\* request, the store of a book with levels, the callback and the streaming
\* subscribe.
SubscribeFetchesFirstWitness ==
    \E t \in CacheThreads :
        /\ mt[t].op = "subscribe"
        /\ mt[t].pc = "done"
        /\ running_
        /\ Len(mt[t].log) = 4
        /\ mt[t].log[3].what = "callback"
        /\ mt[t].i \in DOMAIN orderbooks_
        /\ orderbooks_[mt[t].i].bids # << >>

\* What C21 calls a failed fetch or an unusable payload: a response that is
\* no JSON, has no "result", a "result" that is no object, or a level that
\* is not a pair of numbers.
Unusable(r) ==
    \/ ~r.wellformed
    \/ r.result # "object"
    \/ \E k \in DOMAIN r.bids.levels : r.bids.levels[k].shape = "text"
    \/ \E k \in DOMAIN r.asks.levels : r.asks.levels[k].shape = "text"

\* C21 as stated: when the response of the snapshot request of subscribe(i)
\* is unusable, the call goes on to the streaming subscribe with i
\* subscribed, without a store and without a callback, and returns having
\* made those two calls only, with no book cached for i.
FailedFetchLeavesNoBook ==
    [][ \A t \in CacheThreads :
          /\ \A r \in FetchResponses :
                ( FetchInitialOrderbook(t, r) /\ Unusable(r) )
                => /\ mt'[t].pc = "sub_stream"
                   /\ mt'[t].book = NoBook
                   /\ Subscribed(subscriptions_', mt[t].i)
          /\ ( mt'[t].op = "subscribe" /\ mt'[t].pc = "done"
               /\ mt'[t].log # << >> /\ mt'[t].book = NoBook )
             => /\ mt'[t].log = <<Did("getOrderbook", mt'[t].i),
                                  Did("subscribeToOrderbook", mt'[t].i)>>
                /\ Subscribed(subscriptions_', mt'[t].i)
                /\ mt'[t].i \notin DOMAIN orderbooks_' ]_vars

\* The subscription vector without instrument i, in the same order.
RECURSIVE Without(_, _)
Without(subscriptions, i) ==
    IF subscriptions = << >> THEN << >>
    ELSE IF Head(subscriptions) = i THEN Without(Tail(subscriptions), i)
    ELSE <<Head(subscriptions)>> \o Without(Tail(subscriptions), i)

\* C22: unsubscribe(i) of a subscribed instrument takes i out of the
\* subscription vector and leaves the other instruments in it; on a
\* running cache the call then makes one unsubscribeFromOrderbook(i) and
\* erases i's book, which leaves the books of the other instruments as they
\* were, and when it returns getOrderbook(i) is an empty book.
UnsubscribeEvicts ==
    [][ \A t \in CacheThreads :
          /\ \A i \in Instruments :
                ( UnsubscribeLocked(t, i) /\ Subscribed(subscriptions_, i) )
                => /\ subscriptions_' = Without(subscriptions_, i)
                   /\ ~Subscribed(subscriptions_', i)
                   /\ orderbooks_' = orderbooks_
                   /\ mt'[t].needs
          /\ ( mt[t].pc = "unsub_check" /\ mt'[t].pc # "unsub_check" /\ mt[t].needs )
             => mt'[t].pc = IF running_ THEN "unsub_stream" ELSE "done"
          /\ UnsubscribeErase(t)
             => /\ mt[t].i \notin DOMAIN orderbooks_'
                /\ \A j \in Instruments \ {mt[t].i} :
                      /\ j \in DOMAIN orderbooks_' <=> j \in DOMAIN orderbooks_
                      /\ j \in DOMAIN orderbooks_ => orderbooks_'[j] = orderbooks_[j]
                /\ subscriptions_' = subscriptions_
          /\ ( mt'[t].op = "unsubscribe" /\ mt'[t].pc = "done" /\ mt'[t].log # << >> )
             => /\ mt'[t].log = <<Did("unsubscribeFromOrderbook", mt'[t].i),
                                  Did("erase", mt'[t].i)>>
                /\ getOrderbook(orderbooks_', mt'[t].i)
                      = [instrument |-> mt'[t].i, bids |-> << >>, asks |-> << >>]
                /\ ~Subscribed(subscriptions_', mt'[t].i) ]_vars

\* C22, its case: on a running cache an unsubscribe has returned after it
\* erased a book, while the other instrument is subscribed and has a
\* cached book with levels.
UnsubscribeEvictsWitness ==
    \E t \in CacheThreads :
        /\ mt[t].op = "unsubscribe"
        /\ mt[t].pc = "done"
        /\ Len(mt[t].log) = 2
        /\ running_
        /\ subscriptions_ # << >>
        /\ \E j \in DOMAIN orderbooks_ : j # mt[t].i /\ orderbooks_[j].bids # << >>

\* C23: start on a running cache and stop on a stopped cache return having
\* called nothing and changed nothing; start on a stopped cache sets
\* running_, calls connectWebSocket and then subscribeToOrderbook once for
\* every instrument of the subscription vector; stop on a running cache
\* clears running_, calls unsubscribeFromOrderbook once for every
\* instrument of the vector and then closeWebSocket; neither changes the
\* subscription vector.
StartStopIdempotent ==
    [][ \A t \in CacheThreads :
          /\ StartCheck(t)
             => /\ mt'[t].pc = IF running_ THEN "done" ELSE "start_set"
                /\ mt'[t].log = << >>
          /\ StopCheck(t)
             => /\ mt'[t].pc = IF running_ THEN "stop_set" ELSE "done"
                /\ mt'[t].log = << >>
          /\ mt'[t].op \in {"start", "stop"}
             => /\ subscriptions_' = subscriptions_
                /\ orderbooks_' = orderbooks_
                /\ orderbook_callback_' = orderbook_callback_
                /\ mt'[t].log = << >> => ( running_' = running_ \/ mt'[t].pc # "done" )
          /\ ( mt'[t].op = "start" /\ mt'[t].pc = "done" /\ mt'[t].log # << >> )
             => /\ running_'
                /\ mt'[t].log = <<Did("connectWebSocket", None)>>
                                    \o [k \in DOMAIN subscriptions_' |->
                                           Did("subscribeToOrderbook", subscriptions_'[k])]
          /\ ( mt'[t].op = "stop" /\ mt'[t].pc = "done" /\ mt'[t].log # << >> )
             => /\ ~running_'
                /\ mt'[t].log = [k \in DOMAIN subscriptions_' |->
                                    Did("unsubscribeFromOrderbook", subscriptions_'[k])]
                                    \o <<Did("closeWebSocket", None)>> ]_vars

\* C23, its case: a stop on a running cache with two subscriptions has
\* returned after two unsubscribes and the close.
StartStopIdempotentWitness ==
    \E t \in CacheThreads :
        /\ mt[t].op = "stop"
        /\ mt[t].pc = "done"
        /\ Len(mt[t].log) = 3
        /\ Len(subscriptions_) = 2
        /\ ~running_

\* A call of stop has cleared running_ and has not returned yet, or has
\* just returned.
StopFlipped ==
    \E t \in CacheCallers :
        /\ mt[t].op = "stop"
        /\ mt[t].pc \in {"stop_copy", "stop_stream", "done"}
        /\ mt[t].pc = "done" => mt[t].log # << >>

\* C24 as stated: once stop has cleared running_, a processMessage that
\* begins, or that has stored its book and has its callback still to
\* invoke, changes no cached book and invokes no callback.
IngestionAfterStopIsNoOp ==
    [][ StopFlipped
        => /\ \A m \in RawMessages :
                 ProcessMessage(LinkThread, m)
                 => orderbooks_' = orderbooks_ /\ mt'[LinkThread].pc = "done"
           /\ ProcessNotify(LinkThread)
                 => mt'[LinkThread].log = mt[LinkThread].log ]_vars

\* C25: getOrderbook for an instrument without a cached book returns an
\* empty book with the instrument's name, getOrder for an id that is not
\* in the table returns a REJECTED order with that id and a message, and
\* getSubscriptions for a connection without subscriptions returns the
\* empty set; each returns, and none changes the table or index it reads.
LookupsChangeNothing ==
    [][ /\ \A t \in CacheThreads, i \in Instruments :
              GetOrderbook(t, i)
              => /\ orderbooks_' = orderbooks_
                 /\ mt'[t].pc = "done"
                 /\ i \notin DOMAIN orderbooks_
                    => mt'[t].book = [instrument |-> i, bids |-> << >>, asks |-> << >>]
        /\ \A order_id \in OrderIds :
              GetOrder(order_id)
              => /\ orders_' = orders_
                 /\ ret'.op = "getOrder"
                 /\ order_id \notin DOMAIN orders_
                    => /\ ret'.order.order_id = order_id
                       /\ ret'.order.status = "REJECTED"
                       /\ ret'.order.error_message # ""
        /\ \A t \in Threads, c \in Connections :
              GetSubscriptions(t, c)
              => /\ client_subscriptions_' = client_subscriptions_
                 /\ instrument_subscribers_' = instrument_subscribers_
                 /\ clients_' = clients_
                 /\ th'[t].pc = "done"
                 /\ ( c \notin DOMAIN client_subscriptions_
                      \/ client_subscriptions_[c] = {} ) => th'[t].ret = {} ]_vars

\* C25, its case: with an order placed, a book cached and a connection
\* subscribed, the last lookups were for an unknown order id, for an
\* instrument without a book and for a connection without subscriptions.
LookupsChangeNothingWitness ==
    /\ ret.op = "getOrder"
    /\ ret.order.status = "REJECTED"
    /\ orders_ # << >>
    /\ \E t \in CacheThreads :
          /\ mt[t].op = "getOrderbook"
          /\ mt[t].i \notin DOMAIN orderbooks_
          /\ orderbooks_ # << >>
    /\ \E t \in Threads :
          /\ th[t].op = "getSubscriptions"
          /\ th[t].ret = {}
          /\ th[t].c \notin DOMAIN client_subscriptions_
          /\ client_subscriptions_ # << >>

\* ------------------------------------------------------------------------
\* Subscription Broker: the handlers
\* ------------------------------------------------------------------------

\* The type of the one message the handling of a frame is to answer with.
AnswerOf == [addSubscription |-> "subscribed",
             removeSubscription |-> "unsubscribed",
             handleMessage |-> "error"]

\* C26 as stated: when the handling of a frame from connection c has
\* finished it has sent one message, to c: the confirmation after a
\* subscribe or unsubscribe with an instrument, the error message after
\* any other frame; and a frame that is no subscribe or unsubscribe with an
\* instrument leaves both indexes as they were.
EveryFrameAnswered ==
    [][ /\ ( /\ th'[IoThread].pc = "done"
             /\ th'[IoThread].op \in DOMAIN AnswerOf )
           => /\ Len(th'[IoThread].sent) = 1
              /\ th'[IoThread].sent[1].to = th'[IoThread].c
              /\ th'[IoThread].sent[1].type = AnswerOf[th'[IoThread].op]
        /\ \A c \in Connections, frame \in Frames :
              ( /\ OnMessage(c, frame)
                /\ frame.type = "other" \/ frame.instrument = None )
              => /\ client_subscriptions_' = client_subscriptions_
                 /\ instrument_subscribers_' = instrument_subscribers_ ]_vars

BroadcastOps == {"broadcastToSubscribers", "broadcastOrderbook"}

\* The broadcasts for instrument i that have taken connection c into their
\* snapshot and have not sent yet.
PendingFor(c, i) ==
    {w \in Threads :
        /\ th[w].op \in BroadcastOps
        /\ th[w].i = i
        /\ \/ th[w].pc = "bcast_resolve" /\ c \in th[w].client_ids /\ c \in clients_
           \/ th[w].pc = "bcast_send" /\ c \in th[w].clients}

\* C27 as stated: once connection c is out of the subscribers of instrument
\* i, at most one message for i is still to be sent to c.
AtMostOneFurtherMessage ==
    \A c \in Connections, i \in Instruments :
        c \notin MapGet(instrument_subscribers_, i)
        => Cardinality(PendingFor(c, i)) <= 1

\* C27, amended: a broadcast for instrument i sends to the connections of
\* the snapshot it took in its first block and to no other, each once; so
\* a broadcast that takes its snapshot when c is out of the subscribers of
\* i sends nothing to c, and each broadcast that took it before sends c at
\* most one further message.
OneFurtherMessagePerBroadcast ==
    [][ \A w \in Threads :
          /\ \A i \in Instruments, op \in BroadcastOps :
                BroadcastSnapshot(w, i, op)
                => th'[w].client_ids = MapGet(instrument_subscribers_, i)
          /\ ( th[w].op \in BroadcastOps /\ th'[w].op \in BroadcastOps )
             => th'[w].client_ids = th[w].client_ids
          /\ th'[w].op \in BroadcastOps
             => /\ th'[w].clients \subseteq th'[w].client_ids
                /\ Recipients(th'[w].sent) \subseteq th'[w].client_ids
                /\ \A k, l \in DOMAIN th'[w].sent :
                      th'[w].sent[k].to = th'[w].sent[l].to => k = l
                /\ \A k \in DOMAIN th'[w].sent :
                      th'[w].sent[k].instrument = th'[w].i ]_vars

\* C27, its case: connection c has unsubscribed from instrument i; one
\* broadcast for i, which other threads' steps interleaved, has sent to c,
\* and another, whose snapshot is without c, has sent without sending to c.
OneFurtherMessageWitness ==
    \E c \in Connections, i \in Instruments, w, v \in Broadcasters :
        /\ c \notin MapGet(instrument_subscribers_, i)
        /\ th[w].i = i /\ th[w].pc = "done" /\ ~th[w].alone
        /\ c \in Recipients(th[w].sent)
        /\ th[v].i = i /\ th[v].pc = "done"
        /\ c \notin th[v].client_ids
        /\ th[v].sent # << >>

\* The labels at which a thread is about to call send, once or in a loop.
SendLabels == {"accept_send", "add_send", "remove_send", "bcast_send", "all_send"}

\* The mutex the next step of a thread at the label locks.
NextLocks == [bcast_resolve |-> "clients_mutex_", close_erase |-> "clients_mutex_"]

\* The mutex the first block of an operation locks.
FirstLocks == [addSubscription |-> "subscriptions_mutex_",
               removeSubscription |-> "subscriptions_mutex_",
               removeAllSubscriptions |-> "subscriptions_mutex_",
               broadcastToSubscribers |-> "subscriptions_mutex_",
               broadcastToAll |-> "clients_mutex_"]

\* C28 as stated: a thread that stands in a send that does not return
\* holds no mutex that another thread's operation needs: neither one an
\* operation in progress locks next, nor one an operation locks first.
SlowConsumerBlocksNoOne ==
    \A u \in Threads :
        th[u].pc \in SendLabels
        => /\ \A t \in Threads \ {u} :
                 th[t].pc \in DOMAIN NextLocks => NextLocks[th[t].pc] \notin held[u]
           /\ \A op \in DOMAIN FirstLocks : FirstLocks[op] \notin held[u]

\* C29 as stated: when stop on a running server returns, every connection
\* that was in clients_ when stop copied it is closed, the io context is
\* stopped and the io thread is in no handler; from then on no handler
\* begins and the io thread changes nothing; a stop on a server that is not
\* running returns having changed nothing.
StopClosesAndJoins ==
    [][ /\ \A t \in Callers :
              /\ ( th'[t].op = "stop" /\ th'[t].pc = "done" /\ io_context_' = "stopped" )
                 => /\ \A c \in th'[t].clients : conn'[c] = "closed"
                    /\ th'[IoThread].pc = "idle"
                    /\ ~server_running_'
              /\ ( ServerStopCheck(t) /\ ~server_running_ )
                 => /\ th'[t].pc = "done"
                    /\ UNCHANGED <<clients_, client_subscriptions_,
                                   instrument_subscribers_, conn, io_context_,
                                   server_running_>>
        /\ ( io_context_ = "stopped" /\ th[IoThread].pc = "idle" )
           => /\ th'[IoThread].pc = "idle"
              /\ UNCHANGED <<clients_, client_subscriptions_, instrument_subscribers_>> ]_vars

\* C30: the accept handler of a connection puts it in clients_ and sends
\* one message, the welcome, to that connection; no other operation sends
\* a welcome and no connection is accepted twice; a connection whose
\* socket is open is in clients_, a broadcastToAll takes every connection
\* of clients_ and sends to each of them; and a message or close handler
\* of a connection begins only when the connection is in clients_.
AcceptRegistersAndWelcomes ==
    [][ /\ \A c \in Connections :
              /\ OnAccept(c) => c \in clients_' /\ conn[c] = "new"
              /\ conn[c] # "new" => conn'[c] # "new"
              /\ conn'[c] = "open" => c \in clients_'
              /\ ( \E frame \in Frames : OnMessage(c, frame) ) => c \in clients_
              /\ OnClose(c) => c \in clients_
        /\ \A t \in Threads :
              /\ ( th'[t].op = "onAccept" /\ th'[t].pc = "done" )
                 => th'[t].sent = <<Message(th'[t].c, "welcome", None, held[t])>>
              /\ \A k \in DOMAIN th'[t].sent :
                    th'[t].sent[k].type = "welcome" => th'[t].op = "onAccept"
              /\ BroadcastAllSnapshot(t) => th'[t].clients = clients_
              /\ ( th'[t].op = "broadcastToAll" /\ th'[t].pc = "done" )
                 => Recipients(th'[t].sent) = th'[t].clients ]_vars

\* C30, its case: both connections were accepted, one has closed since,
\* and a broadcastToAll has sent to the other only.
AcceptRegistersAndWelcomesWitness ==
    \E t \in Threads, c \in Connections :
        /\ th[t].op = "broadcastToAll"
        /\ th[t].pc = "done"
        /\ Recipients(th[t].sent) = {c}
        /\ conn[c] = "open"
        /\ \E d \in Connections \ {c} : conn[d] = "closed" /\ d \notin clients_

\* C32: no entry of instrument_subscribers_ has an empty set, whatever step
\* was taken (a removal, a close, a broadcast); the locked block of
\* removeSubscription(c, i) leaves the pair in neither index; and the
\* operation sends one message, the unsubscribed confirmation for i, to c,
\* whether or not the pair was there.
NoEmptySubscriberSet ==
    [][ /\ \A i \in DOMAIN instrument_subscribers_' :
              instrument_subscribers_'[i] # {}
        /\ \A t \in Threads, c \in Connections, i \in Instruments :
              RemoveSubscriptionLocked(t, c, i)
              => /\ i \notin MapGet(client_subscriptions_', c)
                 /\ c \notin MapGet(instrument_subscribers_', i)
                 /\ \A d \in Connections, j \in Instruments :
                       <<d, j>> # <<c, i>>
                       => /\ j \in MapGet(client_subscriptions_', d)
                             <=> j \in MapGet(client_subscriptions_, d)
                          /\ d \in MapGet(instrument_subscribers_', j)
                             <=> d \in MapGet(instrument_subscribers_, j)
        /\ \A t \in Threads :
              ( th'[t].op = "removeSubscription" /\ th'[t].pc = "done" )
              => /\ Len(th'[t].sent) = 1
                 /\ th'[t].sent[1].to = th'[t].c
                 /\ th'[t].sent[1].type = "unsubscribed"
                 /\ th'[t].sent[1].instrument = th'[t].i ]_vars

\* C32, its case: removeSubscription(c, i) has returned its confirmation,
\* c was the last subscriber of i and the entry of i is gone, while c is
\* still subscribed to another instrument.
NoEmptySubscriberSetWitness ==
    \E t \in Threads :
        /\ th[t].op = "removeSubscription"
        /\ th[t].pc = "done"
        /\ th[t].alone
        /\ th[t].i \notin DOMAIN instrument_subscribers_
        /\ th[t].c \in DOMAIN client_subscriptions_
        /\ client_subscriptions_[th[t].c] # {}

\* C33 as stated: a broadcast changes neither index nor clients_;
\* broadcastToSubscribers resolves its snapshot to the ids still in
\* clients_ and sends to exactly those; and broadcastToAll sends to the
\* connections of its snapshot that are still in clients_ when it sends,
\* and to no connection that was removed since.
BroadcastSkipsVanished ==
    [][ \A t \in Threads :
          /\ ( \/ \E i \in Instruments, op \in BroadcastOps : BroadcastSnapshot(t, i, op)
               \/ BroadcastResolve(t)
               \/ BroadcastSend(t)
               \/ BroadcastAllSnapshot(t)
               \/ BroadcastAllSend(t) )
             => UNCHANGED <<clients_, client_subscriptions_, instrument_subscribers_>>
          /\ BroadcastResolve(t)
             => th'[t].clients = th[t].client_ids \cap clients_
          /\ BroadcastSend(t)
             => Recipients(th'[t].sent) = th[t].clients
          /\ BroadcastAllSend(t)
             => Recipients(th'[t].sent) = th[t].clients \cap clients_ ]_vars

\* The label of the step thread t takes when mt[t] changes, and its method.
StepLabel(t) == IF mt[t].pc = "idle" THEN "entry" ELSE mt[t].pc

StepOp(t) == IF mt[t].pc = "idle" THEN mt'[t].op ELSE mt[t].op

\* C34: whatever step a thread of the cache takes, it holds at most one of
\* subscriptions_mutex_ and orderbooks_mutex_ while it takes it; and a step
\* that calls the callback holds neither, and the call so far has done
\* the store of that instrument's book just before.
CacheLocksNeverNested ==
    [][ \A t \in CacheThreads :
          mt'[t] # mt[t]
          => /\ Cardinality(LocksHeld(StepOp(t), StepLabel(t))) <= 1
             /\ ( /\ Len(mt'[t].log) = Len(mt[t].log) + 1
                  /\ mt'[t].log[Len(mt'[t].log)].what = "callback" )
                => /\ LocksHeld(StepOp(t), StepLabel(t)) = {}
                   /\ mt[t].log # << >>
                   /\ mt[t].log[Len(mt[t].log)] =
                         Did("store", mt'[t].log[Len(mt'[t].log)].instrument) ]_vars

\* C34, its case: the snapshot fetch of a subscribe and an ingestion on the
\* link's thread have both stored a book and called the callback.
CacheLocksNeverNestedWitness ==
    /\ mt[LinkThread].op = "processMessage"
    /\ mt[LinkThread].pc = "done"
    /\ mt[LinkThread].log = <<Did("store", mt[LinkThread].i),
                              Did("callback", mt[LinkThread].i)>>
    /\ \E t \in CacheCallers :
          /\ mt[t].op = "subscribe"
          /\ mt[t].pc = "sub_stream"
          /\ Len(mt[t].log) = 3
          /\ mt[t].log[3] = Did("callback", mt[t].i)

\* The label of the step thread t of the broker takes when its program
\* counter changes, and the operation the step belongs to.
BrokerStepLabel(t) == IF th[t].pc = "idle" THEN "entry" ELSE th[t].pc

BrokerStepOp(t) == IF th[t].pc = "idle" THEN th'[t].op ELSE th[t].op

\* C35: whatever step a thread of the broker takes, the mutex the step
\* locks and the mutexes the thread holds already are never both
\* clients_mutex_ and subscriptions_mutex_; and a thread that holds a
\* mutex another thread's next step locks has itself no step ahead that
\* locks a mutex, so that the two cannot wait for each other.
BrokerLocksNeverNested ==
    [][ /\ \A t \in Threads :
              th'[t].pc # th[t].pc
              => Cardinality(held[t] \cup MutexLocked(BrokerStepOp(t), BrokerStepLabel(t))) <= 1
        /\ \A t \in Threads : Cardinality(held'[t]) <= 1
        /\ \A t, u \in Threads :
              ( /\ t # u
                /\ th[t].pc \notin {"idle", "done"}
                /\ MutexLocked(th[t].op, th[t].pc) \cap held[u] # {} )
              => /\ th[u].pc # "idle"
                 /\ MutexLocked(th[u].op, th[u].pc) = {} ]_vars

\* C35, its case: the io thread is inside onAccept with clients_mutex_
\* held while a caller's stop is about to copy the connection table.
BrokerLocksNeverNestedWitness ==
    /\ th[IoThread].op = "onAccept"
    /\ th[IoThread].pc = "accept_send"
    /\ held[IoThread] = {"clients_mutex_"}
    /\ clients_ = Connections
    /\ \E t \in Callers : th[t].pc = "stop_copy"

\* C36 as stated: when no operation is in progress, every connection that
\* an index refers to (it has an instrument in client_subscriptions_, or it
\* is in an instrument's set of instrument_subscribers_) is in clients_.
IndexesReferToClients ==
    ( \A t \in Threads : th[t].pc = "idle" )
    => \A c \in Connections :
          ( \/ MapGet(client_subscriptions_, c) # {}
            \/ \E i \in DOMAIN instrument_subscribers_ : c \in instrument_subscribers_[i] )
          => c \in clients_

\* C37 as stated: when no method of the cache is in progress, orderbooks_
\* has a book only for instruments that are in subscriptions_.
BooksOnlyForSubscribed ==
    ( \A t \in CacheThreads : mt[t].pc = "idle" )
    => \A i \in DOMAIN orderbooks_ : Subscribed(subscriptions_, i)

\* Thread u has no streaming command for instrument i ahead of it in the
\* call it is in.
NoCommandAhead(u, i) ==
    mt[u].pc \in {"idle", "done", "unsub_erase"} \/ mt[u].i # i

\* C38 as stated: the streaming command that is the last one of the calls
\* in progress for an instrument (no other thread has one ahead of it)
\* agrees with the subscription set: a subscribe is issued with the
\* instrument in the set, an unsubscribe with the instrument out of it.
StreamMatchesSubscriptions ==
    [][ \A t \in ChurnCallers :
          /\ ( /\ SubscribeStream(t)
               /\ \A u \in ChurnCallers \ {t} : NoCommandAhead(u, mt[t].i) )
             => Subscribed(subscriptions_, mt[t].i)
          /\ ( /\ UnsubscribeStream(t)
               /\ \A u \in ChurnCallers \ {t} : NoCommandAhead(u, mt[t].i) )
             => ~Subscribed(subscriptions_, mt[t].i) ]_vars

\* The threads that have opened the link in the start they have not yet
\* returned from.
Starting ==
    {t \in ChurnCallers :
        /\ mt[t].op = "start"
        /\ \E k \in DOMAIN mt[t].log : mt[t].log[k] = Did("connectWebSocket", None)}

\* C39 as stated: of the start calls on a stopped cache that are in
\* progress together at most one opens the link; the other returns having
\* done nothing.
OneStartPerforms == Cardinality(Starting) <= 1

\* ------------------------------------------------------------------------
\* Specifications: one per component, the other component at rest
\* ------------------------------------------------------------------------

BrokerSpecInit == BrokerInit /\ OrderInit /\ CacheInit

BrokerSpec == BrokerSpecInit /\ [][BrokerNext]_vars

ConcurrentSpecInit == ConcurrentInit /\ OrderInit /\ CacheInit

ConcurrentSpec == ConcurrentSpecInit /\ [][ConcurrentNext]_vars

OrderSpecInit == OrderInit /\ BrokerInit /\ CacheInit

OrderSpec == OrderSpecInit /\ [][OrderNext]_vars

\* The OrderManager with its position table.
PositionNext ==
    \/ OrderNext
    \/ \E p \in PositionUpdates, undefined \in {"abort", "throw"} :
          OnPositionUpdate(p, undefined)

PositionSpec == OrderSpecInit /\ [][PositionNext]_vars

QuerySpecInit == QueryInit /\ CacheInit /\ BrokerInit

QuerySpec == QuerySpecInit /\ [][QueryNext]_vars

LockSpecInit == CacheInit /\ BrokerInit /\ OrderInit

LockSpec == LockSpecInit /\ [][LockNext]_vars

MutexSpecInit == BrokerInit /\ CacheInit /\ OrderInit

MutexSpec == MutexSpecInit /\ [][MutexNext]_vars

ChurnSpecInit == ChurnInit /\ BrokerInit /\ OrderInit

ChurnSpec == ChurnSpecInit /\ [][ChurnNext]_vars

StartTwiceSpecInit == CacheInit /\ OrderInit /\ BrokerInit

StartTwiceSpec == StartTwiceSpecInit /\ [][StartTwiceNext]_vars

CacheSpecInit == CacheInit /\ BrokerInit /\ OrderInit

CacheSpec == CacheSpecInit /\ [][CacheNext]_vars

LinkSpecInit == CacheInit /\ OrderInit /\ BrokerInit

LinkSpec == LinkSpecInit /\ [][LinkNext]_vars

StopSpecInit == BrokerInit /\ OrderInit /\ CacheInit

StopSpec == StopSpecInit /\ [][StopNext]_vars

RaceSpecInit == RaceInit /\ OrderInit /\ CacheInit

RaceSpec == RaceSpecInit /\ [][RaceNext]_vars

LookupSpecInit == OrderInit /\ CacheInit /\ BrokerInit

LookupSpec == LookupSpecInit /\ [][LookupNext]_vars

====
